---- MODULE Spec2Model ----
(***************************************************************************)
(* A model of aqumenlib's MarketView: the instrument / curve dependency    *)
(* graph, copy-on-write derivation (new_market_for_instruments),           *)
(* rebuild-if-needed (maybe_rebuild_curve) and the spot / forward FX       *)
(* lookups.                                                                *)
(*                                                                         *)
(* Python objects live in heaps (sequences indexed by object identity):    *)
(*   insts   Instrument objects   (name, quote; the quote cell is the      *)
(*           relinkable handle that calibrated curves read through)        *)
(*   curves  Curve objects        (configuration fields and _ql_curve)     *)
(*   qls     QuantLib term structures produced by build(): the quote       *)
(*           handles and the prerequisite term structures they bind        *)
(*   markets MarketView objects   (instruments, all_curves, role maps)     *)
(* The numerical bootstrap itself is a black box: a term structure is      *)
(* identified by what it is bound to, and its output is the quotes it      *)
(* reads through those bindings.                                           *)
(*                                                                         *)
(* The FX part of one MarketView:                                          *)
(*   spot_fx_rates  the table ccy1 -> ccy2 -> rate                         *)
(*   fx_rows        the keys of the table in insertion order (the table    *)
(*                  is a defaultdict: reading a missing row creates it)    *)
(*   dfs            discount factor, at the forward date, of the curve     *)
(*                  registered under each currency / CSA id                *)
(* Rates are Python floats: binary floating point rounded to nearest even, *)
(* modelled with a mantissa of Mantissa bits instead of 53.                *)
(* Ghost variables (last, steps, fxlast, fx_recorded, fx_fresh, fxsteps)   *)
(* record the last call and what add_spot_FX recorded.                     *)
(*                                                                         *)
(* Risk and scenario engines:                                              *)
(*   fcheck  the last InstrumentFilter.matches evaluation                  *)
(*   risk    the calculate_market_risk call in progress or finished        *)
(*   scen    the last scenario call and its result                         *)
(* Quotes are counted in units of the default bump (0.0001).               *)
(*                                                                         *)
(* Dictionaries held by markets, and the quote database:                   *)
(*   dicts     the spot_fx_rates and index_fixings dictionaries created    *)
(*             with each market (a derived market holds the dictionaries   *)
(*             of the market it was copied from)                           *)
(*   quote_db  the rows of the Quote table, in insertion order             *)
(*   dblast    the last quote_db call and what it returned                 *)
(***************************************************************************)
EXTENDS Integers, Sequences, FiniteSets, TLC

VARIABLES insts, curves, qls, markets, last, steps,
          spot_fx_rates, fx_rows, dfs, fxlast, fx_recorded, fx_fresh, fxsteps,
          fcheck, risk, scen,
          dicts, quote_db, dblast

vars == <<insts, curves, qls, markets, last, steps,
          spot_fx_rates, fx_rows, dfs, fxlast, fx_recorded, fx_fresh, fxsteps,
          fcheck, risk, scen,
          dicts, quote_db, dblast>>
mktvars == <<insts, curves, qls, markets, last, steps>>
fxvars == <<spot_fx_rates, fx_rows, dfs, fxlast, fx_recorded, fx_fresh, fxsteps>>
auxvars == <<dicts, quote_db, dblast>>
exvars == <<fcheck, risk, scen, auxvars>>

\* ---------------------------------------------------------------- bounds
MaxSteps == 2
MaxFxSteps == 4
MaxAdds == 3
MaxRiskPrep == 1
MaxScenPrep == 2
MaxCurveSteps == 2
RecursionLimit == 6
MaxQuotes == 3

\* Bits of mantissa of the modelled floats (Python's have 53).
Mantissa == 4

\* The quotes instruments take: an original and a replacement value.
Quotes == {1, 2}

\* ------------------------------------------------------- names and None
NoObj == 0
NoKey == "None"
InstNames == {"x", "y", "z"}
CurveNames == {"A", "B", "C", "D"}
DiscKeys == {"kA"}
IndexKeys == {"iB", "iC", "iD"}

\* The curve configurations used (fields of BootstrappedRateCurveQL, and the
\* role the curve is registered under): A is a discounting curve under
\* currency key kA; B and D are index curves discounted on kA; C is an index
\* curve whose instruments reference index iB.  So C -> B -> A and D -> A.
Catalogue(cn) ==
    CASE cn = "A" -> [name |-> "A", instrument_ids |-> <<"x">>,
                      discounting_id |-> NoKey, dep_indices |-> <<>>,
                      prerequisite_curve_ids |-> <<>>,
                      role |-> "discount", key |-> "kA"]
      [] cn = "B" -> [name |-> "B", instrument_ids |-> <<"y">>,
                      discounting_id |-> "kA", dep_indices |-> <<>>,
                      prerequisite_curve_ids |-> <<"A">>,
                      role |-> "index", key |-> "iB"]
      [] cn = "C" -> [name |-> "C", instrument_ids |-> <<"z">>,
                      discounting_id |-> NoKey, dep_indices |-> <<"iB">>,
                      prerequisite_curve_ids |-> <<"B">>,
                      role |-> "index", key |-> "iC"]
      [] cn = "D" -> [name |-> "D", instrument_ids |-> <<"z">>,
                      discounting_id |-> "kA", dep_indices |-> <<>>,
                      prerequisite_curve_ids |-> <<"A">>,
                      role |-> "index", key |-> "iD"]

CurveOrder == <<"A", "B", "C", "D">>
InstOrder == <<"x", "y", "z">>

Range(s) == {s[k] : k \in 1..Len(s)}

\* Evaluate x once and hand its value to F.
Then(x, F(_)) == CHOOSE r \in {F(v) : v \in {x}} : TRUE

\* ------------------------------------------------------------ Instrument
\* Instrument(name=..., quote=...): a new object with its own quote handle.
NewInstrument(I, n, q) == Append(I, [name |-> n, quote |-> q])

\* Instrument.set_quote: writes the quote and relinks the handle of this object.
SetQuoteObj(I, i, q) == [I EXCEPT ![i].quote = q]

\* ----------------------------------------------------------------- Curve
IsBuilt(c) == c.ql # NoObj

\* (mutant) the build state lives in what the copies share: resetting one
\* curve object resets every object holding the same term structure.
ResetShared(h, cid) ==
    [h EXCEPT !.curves = [k \in 1..Len(h.curves) |->
        IF h.curves[k].ql = h.curves[cid].ql
        THEN [h.curves[k] EXCEPT !.ql = NoObj] ELSE h.curves[k]]]

\* Curve.reset(): forget the calibrated term structure of this object only.
Reset(h, cid) == [h EXCEPT !.curves[cid].ql = NoObj]

\* copy.copy(icurve): a new Curve object sharing the configuration and the
\* reference to the calibrated term structure; returns the heap, the new
\* object being the last one.
CopyCurve(h, cid) == [h EXCEPT !.curves = Append(h.curves, h.curves[cid])]

\* ------------------------------------------------------------ MarketView
EmptyMarket ==
    [instruments |-> [n \in InstNames |-> NoObj],
     all_curves |-> <<>>,
     discount_curves |-> [k \in DiscKeys |-> NoObj],
     index_curves |-> [k \in IndexKeys |-> NoObj],
     origin |-> "init", parent |-> 0]

\* MarketView.get_curve_by_name: the curve object or None.
GetCurveByName(mk, cn) ==
    IF \E k \in 1..Len(mk.all_curves) : mk.all_curves[k].name = cn
    THEN mk.all_curves[CHOOSE k \in 1..Len(mk.all_curves) :
                           mk.all_curves[k].name = cn].obj
    ELSE NoObj

\* all_curves[cname] = curve: dict assignment keeps the insertion position of
\* an existing key and appends a new one.
SetCurve(ac, cn, cid) ==
    IF \E k \in 1..Len(ac) : ac[k].name = cn
    THEN [k \in 1..Len(ac) |->
             IF ac[k].name = cn THEN [name |-> cn, obj |-> cid] ELSE ac[k]]
    ELSE Append(ac, [name |-> cn, obj |-> cid])

CurveObjs(mk) == {mk.all_curves[k].obj : k \in 1..Len(mk.all_curves)}
CurveNamesOf(mk) == {mk.all_curves[k].name : k \in 1..Len(mk.all_curves)}

\* MarketView.add_discount_curve(df_id, curve) on market record mk; curve may be
\* None (NoObj) when the caller looked it up by a name that is not registered.
AddDiscountCurve(h, mk, key, cid) ==
    IF mk.discount_curves[key] # NoObj
    THEN [mk |-> mk, err |-> "AqumenException"]
    ELSE LET mk1 == [mk EXCEPT !.discount_curves[key] = cid] IN
         IF cid = NoObj
         THEN [mk |-> mk1, err |-> "AttributeError"]
         ELSE LET cn == h.curves[cid].name
                  old == GetCurveByName(mk1, cn) IN
              IF old # NoObj /\ h.curves[cid] # h.curves[old]
              THEN [mk |-> mk1, err |-> "AqumenException"]
              ELSE [mk |-> [mk1 EXCEPT !.all_curves = SetCurve(@, cn, cid)],
                    err |-> ""]

\* MarketView.add_index_curve(index, curve).
AddIndexCurve(h, mk, key, cid) ==
    IF mk.index_curves[key] # NoObj
    THEN [mk |-> mk, err |-> "AqumenException"]
    ELSE LET mk1 == [mk EXCEPT !.index_curves[key] = cid]
             cn == h.curves[cid].name
             old == GetCurveByName(mk1, cn) IN
         IF old # NoObj /\ h.curves[cid] # h.curves[old]
         THEN [mk |-> mk1, err |-> "AqumenException"]
         ELSE [mk |-> [mk1 EXCEPT !.all_curves = SetCurve(@, cn, cid)],
               err |-> ""]

\* -------------------------------------------------- calibrated outputs
\* The instrument objects whose quote handles term structure q reads,
\* directly or through the term structures it was bootstrapped on.
RECURSIVE Reads(_, _)
Reads(Q, q) ==
    IF q = NoObj THEN {}
    ELSE Q[q].handles \cup UNION {Reads(Q, d) : d \in Q[q].deps}

\* What a query (discount factor, zero rate) of term structure q depends on:
\* the quotes currently held by the handles it reads.
Output(I, Q, q) == [i \in Reads(Q, q) |-> I[i].quote]

\* ------------------------------------------------------- Curve.build
\* The curves a build binds besides the instruments: the discounting curve
\* registered under discounting_id and the curves of the referenced indices.
BoundCurves(mk, c) ==
    (IF c.discounting_id = NoKey THEN {}
     ELSE {mk.discount_curves[c.discounting_id]})
    \cup {mk.index_curves[c.dep_indices[k]] : k \in 1..Len(c.dep_indices)}

PrereqsBuilt(h, mk, c) ==
    \A k \in 1..Len(c.prerequisite_curve_ids) :
        LET d == GetCurveByName(mk, c.prerequisite_curve_ids[k]) IN
        d # NoObj /\ IsBuilt(h.curves[d])

\* BootstrappedRateCurveQL.build(market): looks up the instruments and the
\* bound curves in the market (KeyError when one is missing), creates the term
\* structure on the instruments' quote handles and stores it in the curve.
\* The log entry records the invocation.
Build(h, mk, cid) ==
    LET c == h.curves[cid]
        entry == [curve |-> cid, wasBuilt |-> IsBuilt(c),
                  prereqsBuilt |-> PrereqsBuilt(h, mk, c)]
        h1 == [h EXCEPT !.log = Append(@, entry)]
        bound == BoundCurves(mk, c)
    IN  IF \E k \in 1..Len(c.instrument_ids) :
              mk.instruments[c.instrument_ids[k]] = NoObj
        THEN [h1 EXCEPT !.err = "KeyError"]
        ELSE IF NoObj \in bound
        THEN [h1 EXCEPT !.err = "KeyError"]
        ELSE LET ts == [handles |-> {mk.instruments[c.instrument_ids[k]] :
                                        k \in 1..Len(c.instrument_ids)},
                        deps |-> {h.curves[d].ql : d \in bound}]
             IN [h1 EXCEPT !.qls = Append(@, ts),
                           !.curves[cid].ql = Len(h.qls) + 1]

\* ------------------------------------------------ maybe_rebuild_curve
RECURSIVE MaybeRebuildCurve(_, _, _)
RECURSIVE RebuildPrereqs(_, _, _, _)

\* (mutant) a prerequisite that does not resolve is skipped.
MissingPrereqSkipped(h) == h

\* raise RuntimeError("Corrupted market view - curve prerequisites are missing.")
MissingPrereq(h) == [h EXCEPT !.err = "corrupted"]

\* for cid in dep_curve_ids: resolve, raise when missing, recurse.
RebuildPrereqs(h, mk, cid, k) ==
    LET ids == h.curves[cid].prerequisite_curve_ids IN
    IF h.err # "" \/ k > Len(ids) THEN h
    ELSE LET depcurve == GetCurveByName(mk, ids[k]) IN
         IF depcurve = NoObj
         THEN Then(MissingPrereq(h), LAMBDA h1 :
                  IF h1.err # "" THEN h1 ELSE RebuildPrereqs(h1, mk, cid, k + 1))
         ELSE Then(MaybeRebuildCurve(h, mk, depcurve), LAMBDA h1 :
                  RebuildPrereqs(h1, mk, cid, k + 1))

\* (mutant) the is_built() guard is missing.
NeverBuilt(h, cid) == FALSE

\* if curve.is_built(): return
AlreadyBuilt(h, cid) == IsBuilt(h.curves[cid])

MaybeRebuildCurve(h, mk, cid) ==
    IF h.err # "" THEN h
    ELSE IF AlreadyBuilt(h, cid) THEN h
    ELSE Then(RebuildPrereqs(h, mk, cid, 1), LAMBDA h1 :
             IF h1.err # "" THEN h1 ELSE Build(h1, mk, cid))

\* One top-level call of the pass, recorded with the curves that were Unbuilt
\* when it started and with the error it raised.
PassCall(h, mk, cid) ==
    Then(MaybeRebuildCurve(h, mk, cid), LAMBDA h1 :
        [h1 EXCEPT !.calls = Append(@,
            [curve |-> cid,
             unbuilt |-> {d \in CurveObjs(mk) : ~IsBuilt(h.curves[d])},
             err |-> h1.err])])

\* (mutant) the pass stops after the first curve of the market.
RebuildFirstOnly(h, mk, k) ==
    IF h.err # "" \/ k > Len(mk.all_curves) THEN h
    ELSE PassCall(h, mk, mk.all_curves[k].obj)

\* for _, icurve in market.all_curves.items(): maybe_rebuild_curve(market, icurve)
RECURSIVE RebuildAll(_, _, _)
RebuildAll(h, mk, k) ==
    IF h.err # "" \/ k > Len(mk.all_curves) THEN h
    ELSE Then(PassCall(h, mk, mk.all_curves[k].obj), LAMBDA h1 :
             RebuildAll(h1, mk, k + 1))

\* ------------------------------------- transitive dependency resolution
RECURSIVE DependenciesAt(_, _, _, _)
RECURSIVE WalkIds(_, _, _, _, _)

\* (mutant) a guard answers the runaway recursion with the consistency error.
FrameLimitAsConsistencyError == [err |-> "corrupted", ids |-> <<>>]

\* The interpreter ends a recursion deeper than its frame limit with
\* RecursionError; nothing in the walk ends it earlier.
FrameLimit == [err |-> "RecursionError", ids |-> <<>>]

\* for cid in ids: ... ids.extend(next_level_ids)  (the list grows while it
\* is iterated, so the appended names are visited too)
WalkIds(h, mk, ids, k, depth) ==
    IF k > Len(ids) THEN [err |-> "", ids |-> ids]
    ELSE LET icurve == GetCurveByName(mk, ids[k]) IN
         IF icurve = NoObj THEN [err |-> "corrupted", ids |-> ids]
         ELSE Then(DependenciesAt(h, mk, icurve, depth + 1), LAMBDA nxt :
                  IF nxt.err # "" THEN nxt
                  ELSE Then(ids \o nxt.ids, LAMBDA ids1 :
                           WalkIds(h, mk, ids1, k + 1, depth)))

\* get_indirect_curve_dependencies(market, curve) as the depth-th nested call
DependenciesAt(h, mk, cid, depth) ==
    IF depth > RecursionLimit THEN FrameLimit
    ELSE Then(h.curves[cid].prerequisite_curve_ids, LAMBDA ids :
             WalkIds(h, mk, ids, 1, depth))

\* (mutant) only the curve's own prerequisite list, no recursion.
GetDirectCurveDependencies(h, mk, cid) ==
    [err |-> "", ids |-> h.curves[cid].prerequisite_curve_ids]

\* ids = curve.get_prerequisite_curve_ids() returns a copy of the list.
GetIndirectCurveDependencies(h, mk, cid) == DependenciesAt(h, mk, cid, 1)

\* get_indirect_curve_instruments: the instruments of the curve and of every
\* curve named by the walk.
GetIndirectCurveInstruments(h, mk, cid) ==
    Then(GetIndirectCurveDependencies(h, mk, cid), LAMBDA deps :
        IF deps.err # "" THEN [err |-> deps.err, ids |-> {}]
        ELSE LET cs == {cid} \cup {GetCurveByName(mk, deps.ids[k]) :
                                      k \in 1..Len(deps.ids)}
             IN [err |-> "",
                 ids |-> UNION {Range(h.curves[d].instrument_ids) : d \in cs}])

\* --------------------------------------- new_market_for_instruments
\* (mutant) the merge writes into self.instruments itself.
MergeInstrumentsNoCopy(dict, newdict) ==
    LET merged == [n \in InstNames |->
                      IF newdict[n] # NoObj THEN newdict[n] ELSE dict[n]]
    IN [self |-> merged, new |-> merged]

\* new_inst_dict = copy.copy(self.instruments); new_inst_dict[name] = inew_inst:
\* the merge writes into a copy, so self keeps its own dict.
MergeInstruments(dict, newdict) ==
    [self |-> dict,
     new |-> [n \in InstNames |->
                 IF newdict[n] # NoObj THEN newdict[n] ELSE dict[n]]]

\* new_curve = copy.copy(icurve): the object the new market registers.
NewCurveFor(h, cid) ==
    [h |-> CopyCurve(h, cid), obj |-> Len(h.curves) + 1]

\* One turn of the loop over self.all_curves: dependency set, copy,
\* conditional reset.  st = [h, ac, reset].
CopyOneCurve(st, self, change_inst_set, k) ==
    LET cid == self.all_curves[k].obj
        cname == self.all_curves[k].name IN
    Then(GetIndirectCurveInstruments(st.h, self, cid), LAMBDA dep :
        IF dep.err # ""
        THEN [st EXCEPT !.h.err = dep.err]
        ELSE Then(NewCurveFor(st.h, cid), LAMBDA nc :
                 IF (change_inst_set \cap dep.ids) # {}
                 THEN [h |-> Reset(nc.h, nc.obj),
                       ac |-> SetCurve(st.ac, cname, nc.obj),
                       reset |-> st.reset \cup {cname}]
                 ELSE [h |-> nc.h,
                       ac |-> SetCurve(st.ac, cname, nc.obj),
                       reset |-> st.reset]))

RECURSIVE CopyCurves(_, _, _, _)
CopyCurves(st, self, change_inst_set, k) ==
    IF st.h.err # "" \/ k > Len(self.all_curves) THEN st
    ELSE Then(CopyOneCurve(st, self, change_inst_set, k), LAMBDA st1 :
             CopyCurves(st1, self, change_inst_set, k + 1))

DiscKeyOrder == <<"kA">>

\* for df_id, icurve in self.discount_curves.items():
\*     new_market.add_discount_curve(df_id, new_market.get_curve_by_name(name))
RECURSIVE RebindDiscount(_, _, _, _)
RebindDiscount(h, self, new, k) ==
    IF k > Len(DiscKeyOrder) THEN [mk |-> new, err |-> ""]
    ELSE LET old == self.discount_curves[DiscKeyOrder[k]] IN
         IF old = NoObj THEN RebindDiscount(h, self, new, k + 1)
         ELSE Then(AddDiscountCurve(h, new, DiscKeyOrder[k],
                       GetCurveByName(new, h.curves[old].name)), LAMBDA r :
                  IF r.err # "" THEN r
                  ELSE RebindDiscount(h, self, r.mk, k + 1))

\* (mutant) the index role map of self is kept as it is.
RebindIndexShared(h, self, new) ==
    [new EXCEPT !.index_curves = self.index_curves]

\* new_market.index_curves[index_name] = new_market.get_curve_by_name(name)
RebindIndex(h, self, new) ==
    [new EXCEPT !.index_curves =
        [key \in IndexKeys |->
            IF self.index_curves[key] = NoObj THEN NoObj
            ELSE GetCurveByName(new, h.curves[self.index_curves[key]].name)]]

\* MarketView.new_market_for_instruments(new_instruments); newdict maps the
\* names of new_instruments to the new Instrument objects (NoObj elsewhere).
\* Returns the heap, self as the call leaves it, the new market and the names
\* of the curves whose copies were reset.
NewMarketForInstruments(h, self, newdict) ==
    LET change_inst_set == {n \in InstNames : newdict[n] # NoObj} IN
    Then(MergeInstruments(self.instruments, newdict), LAMBDA merged :
    Then([self EXCEPT !.instruments = merged.self], LAMBDA self1 :
    Then(CopyCurves([h |-> h, ac |-> <<>>, reset |-> {}], self1,
                    change_inst_set, 1), LAMBDA cc :
    Then([EmptyMarket EXCEPT !.instruments = merged.new,
                             !.all_curves = cc.ac], LAMBDA new1 :
        IF cc.h.err # ""
        THEN [h |-> cc.h, self |-> self1, new |-> new1, reset |-> cc.reset]
        ELSE Then(RebindDiscount(cc.h, self1, new1, 1), LAMBDA rd :
             Then(RebindIndex(cc.h, self1, rd.mk), LAMBDA new2 :
                 IF rd.err # ""
                 THEN [h |-> [cc.h EXCEPT !.err = rd.err], self |-> self1,
                       new |-> new2, reset |-> cc.reset]
                 ELSE [h |-> RebuildAll(cc.h, new2, 1), self |-> self1,
                       new |-> new2, reset |-> cc.reset]))))))

\* ------------------------------------------------ assembling a market
\* The sequence used by the add_bootstraped_*_to_market helpers: construct
\* the curve, curve.build(market), then register it under its role.
AddCurveOp(h, mk, cn) ==
    LET cfg == Catalogue(cn)
        c == [name |-> cfg.name, instrument_ids |-> cfg.instrument_ids,
              discounting_id |-> cfg.discounting_id,
              dep_indices |-> cfg.dep_indices,
              prerequisite_curve_ids |-> cfg.prerequisite_curve_ids,
              ql |-> NoObj]
        cid == Len(h.curves) + 1
    IN Then(Build([h EXCEPT !.curves = Append(@, c)], mk, cid), LAMBDA h2 :
           IF h2.err # "" THEN [h |-> h2, mk |-> mk]
           ELSE Then(IF cfg.role = "discount"
                     THEN AddDiscountCurve(h2, mk, cfg.key, cid)
                     ELSE AddIndexCurve(h2, mk, cfg.key, cid), LAMBDA r :
                    [h |-> [h2 EXCEPT !.err = r.err], mk |-> r.mk]))

Reverse(s) == [k \in 1..Len(s) |-> s[Len(s) + 1 - k]]

\* MarketView(name, pricing_date, instruments=..., all_curves=..., ...): the
\* constructor is given the instruments of market src and, for the curve
\* names in K, either the curve object of src or (names in F) a newly
\* constructed, Unbuilt curve of the same configuration, in the order of src
\* or in reverse; model_post_init then runs maybe_rebuild_curve on each curve.
\* st = [h, ac].
PickOneCurve(st, e, K, F) ==
    IF e.name \notin K THEN st
    ELSE IF e.name \in F
    THEN [h |-> Reset(CopyCurve(st.h, e.obj), Len(st.h.curves) + 1),
          ac |-> Append(st.ac, [name |-> e.name, obj |-> Len(st.h.curves) + 1])]
    ELSE [h |-> st.h, ac |-> Append(st.ac, e)]

RECURSIVE PickCurves(_, _, _, _, _)
PickCurves(st, names, K, F, k) ==
    IF k > Len(names) THEN st
    ELSE Then(PickOneCurve(st, names[k], K, F), LAMBDA st1 :
             PickCurves(st1, names, K, F, k + 1))

ModelPostInit(h, mk) == RebuildAll(h, mk, 1)

AssembleOp(h, src, K, F, rev) ==
    Then(PickCurves([h |-> h, ac |-> <<>>], src.all_curves, K, F, 1), LAMBDA pc :
    Then([EmptyMarket EXCEPT !.instruments = src.instruments,
                             !.all_curves = IF rev THEN Reverse(pc.ac) ELSE pc.ac],
         LAMBDA mk0 :
    Then([mk0 EXCEPT
             !.discount_curves =
                 [key \in DiscKeys |->
                    IF src.discount_curves[key] = NoObj THEN NoObj
                    ELSE GetCurveByName(mk0,
                           h.curves[src.discount_curves[key]].name)],
             !.index_curves =
                 [key \in IndexKeys |->
                    IF src.index_curves[key] = NoObj THEN NoObj
                    ELSE GetCurveByName(mk0,
                           h.curves[src.index_curves[key]].name)]], LAMBDA mk :
        [h |-> ModelPostInit(pc.h, mk), mk |-> mk])))

\* ----------------------------------------------------------- the state
Heap(I, C, Q) ==
    [insts |-> I, curves |-> C, qls |-> Q,
     log |-> <<>>, calls |-> <<>>, err |-> ""]

H == Heap(insts, curves, qls)

NoLast ==
    [op |-> "init", m |-> 0, d |-> 0, names |-> {}, quote |-> 0, err |-> "",
     log |-> <<>>, calls |-> <<>>, reset |-> {}, mkt |-> EmptyMarket]

\* A market with instruments x, y, z and the first n curves of CurveOrder
\* added in that order, as the helpers leave it.
RECURSIVE InitMarket(_)
InitMarket(n) ==
    IF n = 0
    THEN [h |-> Heap(<<[name |-> "x", quote |-> 1], [name |-> "y", quote |-> 1],
                       [name |-> "z", quote |-> 1]>>, <<>>, <<>>),
          mk |-> [EmptyMarket EXCEPT
                    !.instruments = [n1 \in InstNames |->
                       CHOOSE k \in 1..Len(InstOrder) : InstOrder[k] = n1]]]
    ELSE Then(InitMarket(n - 1), LAMBDA p : AddCurveOp(p.h, p.mk, CurveOrder[n]))

InitMkt ==
    \E r \in {InitMarket(Len(CurveOrder))} :
        /\ insts = r.h.insts
        /\ curves = r.h.curves
        /\ qls = r.h.qls
        /\ markets = <<r.mk>>
        /\ last = NoLast
        /\ steps = 0

Commit(h, mks, l) ==
    /\ insts' = h.insts
    /\ curves' = h.curves
    /\ qls' = h.qls
    /\ markets' = mks
    /\ last' = l
    /\ steps' = steps + 1

\* (mutant) the quote of the stored instrument is not compared.
QuoteConflictIgnored(I, old, q) == FALSE

\* if instrument.name in self.instruments: the quotes differ
QuoteConflict(I, old, q) == old # NoObj /\ I[old].quote # q

\* market.add_instrument(Instrument(name=n, quote=q))
AddInstrumentCall(m, n, q) ==
    LET old == markets[m].instruments[n] IN
    IF QuoteConflict(insts, old, q)
    THEN Commit(H, markets,
                [NoLast EXCEPT !.op = "add_instrument", !.m = m,
                               !.names = {n}, !.quote = q,
                               !.err = "KeyError"])
    ELSE Commit([H EXCEPT !.insts = NewInstrument(insts, n, q)],
                [markets EXCEPT ![m].instruments[n] = Len(insts) + 1],
                [NoLast EXCEPT !.op = "add_instrument", !.m = m,
                               !.names = {n}, !.quote = q])

AddInstrument(m, n, q) == steps < MaxSteps /\ AddInstrumentCall(m, n, q)

\* market.get_instrument(n).set_quote(q)
SetQuote(m, n, q) ==
    /\ steps < MaxSteps
    /\ markets[m].instruments[n] # NoObj
    /\ Commit([H EXCEPT !.insts = SetQuoteObj(insts, markets[m].instruments[n], q)],
              markets,
              [NoLast EXCEPT !.op = "set_quote", !.m = m, !.names = {n}])

\* a helper call adding curve cn to market m
AddCurve(m, cn) ==
    /\ steps < MaxSteps
    /\ \E r \in {AddCurveOp(H, markets[m], cn)} :
           Commit(r.h, [markets EXCEPT ![m] = r.mk],
                  [NoLast EXCEPT !.op = "add_curve", !.m = m, !.err = r.h.err,
                                 !.log = r.h.log])

\* The new Instrument objects of a replacement list S (name -> quote):
\* st = [insts, dict].
RECURSIVE NewInstruments(_, _, _)
NewInstruments(st, S, k) ==
    IF k > Len(InstOrder) THEN st
    ELSE IF InstOrder[k] \in DOMAIN S
    THEN Then([insts |-> NewInstrument(st.insts, InstOrder[k], S[InstOrder[k]]),
               dict |-> [st.dict EXCEPT ![InstOrder[k]] = Len(st.insts) + 1]],
              LAMBDA st1 : NewInstruments(st1, S, k + 1))
    ELSE NewInstruments(st, S, k + 1)

\* D = markets[m].new_market_for_instruments([Instrument(n, S[n]) : n in S])
Derive(m, S) ==
    /\ steps < MaxSteps
    /\ \E ni \in {NewInstruments([insts |-> insts,
                                  dict |-> [n \in InstNames |-> NoObj]], S, 1)} :
       \E r \in {NewMarketForInstruments([H EXCEPT !.insts = ni.insts],
                                         markets[m], ni.dict)} :
         LET ok == r.h.err = ""
             mks == [markets EXCEPT ![m] = r.self]
             new == [r.new EXCEPT !.origin = "derive", !.parent = m]
         IN Commit(r.h, IF ok THEN Append(mks, new) ELSE mks,
                   [op |-> "derive", m |-> m,
                    d |-> IF ok THEN Len(markets) + 1 ELSE 0,
                    names |-> DOMAIN S, quote |-> 0, err |-> r.h.err,
                    log |-> r.h.log,
                    calls |-> r.h.calls, reset |-> r.reset, mkt |-> new])

\* MarketView(...) assembled from the objects of market m
Assemble(m, K, F, rev) ==
    /\ steps < MaxSteps
    /\ \E r \in {AssembleOp(H, markets[m], K, F, rev)} :
         LET ok == r.h.err = ""
             new == [r.mk EXCEPT !.origin = "assemble", !.parent = m]
         IN Commit(r.h, IF ok THEN Append(markets, new) ELSE markets,
                   [op |-> "assemble", m |-> m,
                    d |-> IF ok THEN Len(markets) + 1 ELSE 0,
                    names |-> {}, quote |-> 0, err |-> r.h.err,
                    log |-> r.h.log,
                    calls |-> r.h.calls, reset |-> F, mkt |-> new])

\* Replacement lists: one instrument at either quote, or two at once.
ReplacementSets ==
    UNION {[D -> Quotes] : D \in {{"x"}, {"y"}, {"z"}}}
    \cup {[n \in {"x", "y"} |-> 2]}

\* The constructor inputs explored: all curves of the source market, or
\* without A and D, or without B; all curve objects reused, all newly
\* constructed (in either order), or only C newly constructed.
AssembleChoices(mk) ==
    LET all == CurveNamesOf(mk) IN
    UNION {{<<K, {}, FALSE>>, <<K, K, FALSE>>, <<K, K, TRUE>>,
            <<K, K \cap {"C"}, FALSE>>} :
           K \in {all, all \ {"A", "D"}, all \ {"B"}} \ {{}}}

\* ================================================================== FX
\* ------------------------------------------------------ Python floats
RECURSIVE Pow2(_)
Pow2(n) == IF n = 0 THEN 1 ELSE 2 * Pow2(n - 1)

\* The float nearest to (n / d) * 2^e, ties to even: [m, e] stands for
\* m * 2^e with 2^(Mantissa-1) <= m < 2^Mantissa.
RECURSIVE Norm(_, _, _)
Norm(n, d, e) ==
    IF n < d * Pow2(Mantissa - 1) THEN Norm(2 * n, d, e - 1)
    ELSE IF n >= d * Pow2(Mantissa) THEN Norm(n, 2 * d, e + 1)
    ELSE LET q == n \div d
             r == n % d
             up == 2 * r > d \/ (2 * r = d /\ q % 2 = 1)
             m == IF up THEN q + 1 ELSE q
         IN IF m = Pow2(Mantissa) THEN [m |-> Pow2(Mantissa - 1), e |-> e + 1]
            ELSE [m |-> m, e |-> e]

\* x / y and x * y on floats
FDiv(x, y) == Norm(x.m, y.m, x.e - y.e)
FMul(x, y) == Norm(x.m * y.m, 1, x.e + y.e)

\* the float written n / d in decimal, and the literal 1.0
Ratio(n, d) == Norm(n, d, 0)
One == Ratio(1, 1)

\* a missing dict entry
NoRate == [m |-> 0, e |-> 0]

Ccys == {"a", "b", "c"}
CsaIds == {"k"}
DfIds == Ccys \cup CsaIds

\* The rates recorded with add_spot_FX.
FxRates == {Ratio(3, 1), Ratio(11, 1)}

\* Discount curves are registered under a, b and the CSA id k; none under c.
Dfs ==
    [id \in DfIds |-> CASE id = "a" -> Ratio(7, 8)
                        [] id = "b" -> Ratio(3, 4)
                        [] id = "c" -> NoRate
                        [] OTHER -> Ratio(5, 8)]

EmptyTable == [c1 \in Ccys |-> [c2 \in Ccys |-> NoRate]]

\* self.spot_fx_rates[ccy] on a defaultdict(dict): a missing row is created.
Touch(rows, ccy) == IF ccy \in Range(rows) THEN rows ELSE Append(rows, ccy)

\* if ccy1 == ccy2: raise KeyError; self.spot_fx_rates[ccy1][ccy2] = rate
AddSpotFX(T, rows, ccy1, ccy2, rate) ==
    IF ccy1 = ccy2 THEN [err |-> "KeyError", T |-> T, rows |-> rows]
    ELSE [err |-> "", T |-> [T EXCEPT ![ccy1][ccy2] = rate],
          rows |-> Touch(rows, ccy1)]

\* (mutant) the first membership test uses the row's own key.
HasBothLegsWrongKey(T, iccy, ccy1, ccy2) ==
    T[iccy][iccy] # NoRate /\ T[iccy][ccy2] # NoRate

\* if ccy1 in iccy_dict and ccy2 in iccy_dict
HasBothLegs(T, iccy, ccy1, ccy2) ==
    T[iccy][ccy1] # NoRate /\ T[iccy][ccy2] # NoRate

\* (mutant) the quotient is taken the wrong way round.
TriangulateInverted(x1, x2) == FDiv(x1, x2)

\* triangulated_rate = x2 / x1
Triangulate(x1, x2) == FDiv(x2, x1)

\* MarketView.get_spot_FX(ccy1, ccy2): the result, and the table and its
\* rows as the call leaves them.
GetSpotFX(T, rows, ccy1, ccy2) ==
    IF ccy1 = ccy2 THEN [err |-> "", val |-> One, T |-> T, rows |-> rows]
    ELSE IF T[ccy1][ccy2] # NoRate
    THEN [err |-> "", val |-> T[ccy1][ccy2], T |-> T,
          rows |-> Touch(rows, ccy1)]
    ELSE LET rows2 == Touch(Touch(rows, ccy1), ccy2) IN
         IF T[ccy2][ccy1] # NoRate
         THEN [err |-> "", val |-> FDiv(One, T[ccy2][ccy1]), T |-> T,
               rows |-> rows2]
         ELSE LET hits == {k \in 1..Len(rows2) :
                              HasBothLegs(T, rows2[k], ccy1, ccy2)} IN
              IF hits = {}
              THEN [err |-> "KeyError", val |-> NoRate, T |-> T, rows |-> rows2]
              ELSE LET iccy == rows2[CHOOSE k \in hits :
                                        \A j \in hits : k <= j]
                       triangulated_rate ==
                           Triangulate(T[iccy][ccy1], T[iccy][ccy2])
                   IN [err |-> "", val |-> triangulated_rate,
                       T |-> [T EXCEPT ![ccy1][ccy2] = triangulated_rate],
                       rows |-> rows2]

\* (mutant) the two discount factors are exchanged.
FwdFromSpotSwapped(spot, df1, df2) == FDiv(FMul(spot, df2), df1)

\* self.get_spot_FX(ccy1, ccy2) * df1 / df2
FwdFromSpot(spot, df1, df2) == FDiv(FMul(spot, df1), df2)

\* dfc = csa if csa is not None else ccy
DfId(ccy, csa) == IF csa # NoKey THEN csa ELSE ccy

\* MarketView.get_fwd_FX(fwd_date, ccy1, ccy2, csa1, csa2); D[id] is
\* get_discounting_curve(id).discount_factor(fwd_date), NoRate when no
\* discount curve is registered under id (get_discounting_curve raises).
GetFwdFX(T, rows, D, ccy1, ccy2, csa1, csa2) ==
    IF ccy1 = ccy2 THEN [err |-> "", val |-> One, T |-> T, rows |-> rows]
    ELSE LET df1 == D[DfId(ccy1, csa1)]
             df2 == D[DfId(ccy2, csa2)]
         IN IF df1 = NoRate \/ df2 = NoRate
            THEN [err |-> "KeyError", val |-> NoRate, T |-> T, rows |-> rows]
            ELSE Then(GetSpotFX(T, rows, ccy1, ccy2), LAMBDA s :
                     IF s.err # "" THEN s
                     ELSE [s EXCEPT !.val = FwdFromSpot(s.val, df1, df2)])

NoFxLast ==
    [op |-> "init", c1 |-> "a", c2 |-> "a", csa1 |-> NoKey, csa2 |-> NoKey,
     err |-> "", val |-> NoRate, pre |-> EmptyTable, prerows |-> <<>>]

\* A market with its discount curves registered and no FX entry yet.
FxInit ==
    /\ spot_fx_rates = EmptyTable
    /\ fx_rows = <<>>
    /\ dfs = Dfs
    /\ fxlast = NoFxLast
    /\ fx_recorded = EmptyTable
    /\ fx_fresh = TRUE
    /\ fxsteps = 0

\* ------------------------------------------- instrument classification
\* InstrumentFamilyMeta of the instrument types used: x is a swap quoted in
\* currency a, y a rate future in currency a, z an FX swap in currency b.
InstType(n) ==
    CASE n = "x" -> [family |-> "IRS", currency |-> "a", risk_type |-> "RATE",
                     asset_class |-> "RATE", futures |-> FALSE]
      [] n = "y" -> [family |-> "FUT", currency |-> "a", risk_type |-> "RATE",
                     asset_class |-> "RATE", futures |-> TRUE]
      [] n = "z" -> [family |-> "FXSW", currency |-> "b", risk_type |-> "FX",
                     asset_class |-> "FX", futures |-> FALSE]

\* An optional list: None, or the values listed.
None == [set |-> FALSE, vals |-> {}]
List(S) == [set |-> TRUE, vals |-> S]

\* InstrumentFilter(); nofilter stands for filter_instrument = None.
EmptyFilter ==
    [nofilter |-> FALSE,
     filter_instrument_name |-> None, filter_instrument_family |-> None,
     filter_currency |-> None, filter_risk_type |-> None,
     filter_asset_class |-> None]
NoFilter == [EmptyFilter EXCEPT !.nofilter = TRUE]

NoCheck == [op |-> "init", f |-> NoFilter, n |-> "x", res |-> FALSE]
\* No RiskResult returned (yet).
NoResult == [set |-> FALSE, rows |-> <<>>]

\* No calculate_market_risk call made yet.  orig and nbumped are ghosts: the
\* quotes at the time of the call and the number of bumps applied.
NoRisk ==
    [pc |-> "idle", in_place |-> FALSE, pricers |-> <<>>, f |-> NoFilter,
     rz |-> FALSE, k |-> 0, j |-> 0, base |-> <<>>, bumpv |-> <<>>,
     old |-> 0, bsize |-> 0, bumps |-> <<>>, rows |-> <<>>,
     ret |-> NoResult, err |-> "",
     orig |-> [n \in InstNames |-> 0], nbumped |-> 0]
\* No scenario call made yet.  orig, ncalls, stage and ndiv are ghosts: the
\* base quotes at the call, the number of new_market_for_instruments calls,
\* where an error was raised and the number of divisions made for the row.
NoScen ==
    [op |-> "init", adjs |-> <<>>, p |-> "pA",
     orig |-> [n \in InstNames |-> 0], d |-> 0, ncalls |-> 0,
     err |-> "", stage |-> "", rows |-> <<>>, ndiv |-> 0]

\* The dictionaries a MarketView is constructed with:
\*   spot_fx_rates = defaultdict(dict),  index_fixings = {}
NewDicts ==
    [fx |-> [kind |-> "defaultdict", T |-> EmptyTable, rows |-> <<>>],
     fixings |-> [names |-> {}, list |-> [k \in IndexKeys |-> <<>>]]]

\* a missing Quote row (None)
NoRow == [instrument_id |-> "", quote_date |-> 0, added_timestamp |-> 0]

NoDbLast ==
    [op |-> "init", date |-> 0, instrument_id |-> "", window |-> 0,
     err |-> "", row |-> NoRow]

AuxInit ==
    /\ dicts = (1 :> NewDicts)
    /\ quote_db = <<>>
    /\ dblast = NoDbLast

ExInit ==
    /\ fcheck = NoCheck
    /\ risk = NoRisk
    /\ scen = NoScen
    /\ AuxInit

Init == InitMkt /\ FxInit /\ ExInit

Next ==
    \/ \E m \in 1..Len(markets), n \in InstNames, q \in Quotes :
           AddInstrument(m, n, q) /\ UNCHANGED <<fxvars, exvars>>
    \/ \E m \in 1..Len(markets), n \in InstNames, q \in Quotes :
           SetQuote(m, n, q) /\ UNCHANGED <<fxvars, exvars>>
    \/ \E m \in 1..Len(markets), cn \in CurveNames :
           AddCurve(m, cn) /\ UNCHANGED <<fxvars, exvars>>
    \/ \E m \in 1..Len(markets), S \in ReplacementSets :
           Derive(m, S) /\ UNCHANGED <<fxvars, exvars>>
    \/ \E m \in 1..Len(markets) : \E kf \in AssembleChoices(markets[m]) :
           Assemble(m, kf[1], kf[2], kf[3]) /\ UNCHANGED <<fxvars, exvars>>

Spec == Init /\ [][Next]_vars

\* ------------------------------------- the add_instrument specification
\* A new MarketView(name, pricing_date): no instrument, no curve.
InitFresh ==
    /\ insts = <<>>
    /\ curves = <<>>
    /\ qls = <<>>
    /\ markets = <<EmptyMarket>>
    /\ last = NoLast
    /\ steps = 0
    /\ FxInit
    /\ ExInit

NextAdd ==
    \E n \in InstNames, q \in Quotes :
        /\ steps < MaxAdds
        /\ AddInstrumentCall(1, n, q)
        /\ UNCHANGED <<fxvars, exvars>>

SpecAdd == InitFresh /\ [][NextAdd]_vars

\* ------------------------------------------------ the FX specification
\* market.add_spot_FX(ccy1, ccy2, rate)
FxAdd(ccy1, ccy2, rate) ==
    /\ fxsteps < MaxFxSteps
    /\ \E r \in {AddSpotFX(spot_fx_rates, fx_rows, ccy1, ccy2, rate)} :
         /\ spot_fx_rates' = r.T
         /\ fx_rows' = r.rows
         /\ fxlast' = [NoFxLast EXCEPT !.op = "add_spot_FX", !.c1 = ccy1,
                                       !.c2 = ccy2, !.err = r.err,
                                       !.pre = spot_fx_rates,
                                       !.prerows = fx_rows]
         /\ fx_recorded' = IF r.err = ""
                           THEN [fx_recorded EXCEPT ![ccy1][ccy2] = rate]
                           ELSE fx_recorded
         /\ fx_fresh' = IF r.err = ""
                        THEN fx_fresh /\ spot_fx_rates = fx_recorded
                        ELSE fx_fresh
    /\ fxsteps' = fxsteps + 1
    /\ UNCHANGED dfs

\* market.get_spot_FX(ccy1, ccy2)
FxGet(ccy1, ccy2) ==
    /\ fxsteps < MaxFxSteps
    /\ \E r \in {GetSpotFX(spot_fx_rates, fx_rows, ccy1, ccy2)} :
         /\ spot_fx_rates' = r.T
         /\ fx_rows' = r.rows
         /\ fxlast' = [NoFxLast EXCEPT !.op = "get_spot_FX", !.c1 = ccy1,
                                       !.c2 = ccy2, !.err = r.err,
                                       !.val = r.val, !.pre = spot_fx_rates,
                                       !.prerows = fx_rows]
    /\ fxsteps' = fxsteps + 1
    /\ UNCHANGED <<dfs, fx_recorded, fx_fresh>>

\* market.get_fwd_FX(fwd_date, ccy1, ccy2, csa1, csa2)
FxFwd(ccy1, ccy2, csa1, csa2) ==
    /\ fxsteps < MaxFxSteps
    /\ \E r \in {GetFwdFX(spot_fx_rates, fx_rows, dfs, ccy1, ccy2, csa1, csa2)} :
         /\ spot_fx_rates' = r.T
         /\ fx_rows' = r.rows
         /\ fxlast' = [NoFxLast EXCEPT !.op = "get_fwd_FX", !.c1 = ccy1,
                                       !.c2 = ccy2, !.csa1 = csa1,
                                       !.csa2 = csa2, !.err = r.err,
                                       !.val = r.val, !.pre = spot_fx_rates,
                                       !.prerows = fx_rows]
    /\ fxsteps' = fxsteps + 1
    /\ UNCHANGED <<dfs, fx_recorded, fx_fresh>>

\* The CSA arguments explored: none, or the CSA id on one side.
CsaChoices == {<<NoKey, NoKey>>, <<"k", NoKey>>, <<NoKey, "k">>}

NextFX ==
    \/ \E c1 \in Ccys, c2 \in Ccys, rate \in FxRates :
           FxAdd(c1, c2, rate) /\ UNCHANGED <<mktvars, exvars>>
    \/ \E c1 \in Ccys, c2 \in Ccys :
           FxGet(c1, c2) /\ UNCHANGED <<mktvars, exvars>>
    \/ \E c1 \in Ccys, c2 \in Ccys, csa \in CsaChoices :
           FxFwd(c1, c2, csa[1], csa[2]) /\ UNCHANGED <<mktvars, exvars>>

SpecFX == Init /\ [][NextFX]_vars

\* ================================================= InstrumentFilter
\* self.<group> is not None and <value> not in self.<group>: return False
GroupAdmits(g, v) == ~g.set \/ v \in g.vals

\* (mutant) one admitting group is enough.
MatchesAnyGroup(f, n) ==
    LET t == InstType(n) IN
    \/ GroupAdmits(f.filter_instrument_name, n)
    \/ GroupAdmits(f.filter_instrument_family, t.family)
    \/ GroupAdmits(f.filter_currency, t.currency)
    \/ GroupAdmits(f.filter_risk_type, t.risk_type)
    \/ GroupAdmits(f.filter_asset_class, t.asset_class)

\* InstrumentFilter.matches(instrument), for the instrument named n
Matches(f, n) ==
    LET t == InstType(n) IN
    IF ~GroupAdmits(f.filter_instrument_name, n) THEN FALSE
    ELSE IF ~GroupAdmits(f.filter_instrument_family, t.family) THEN FALSE
    ELSE IF ~GroupAdmits(f.filter_currency, t.currency) THEN FALSE
    ELSE IF ~GroupAdmits(f.filter_risk_type, t.risk_type) THEN FALSE
    ELSE IF ~GroupAdmits(f.filter_asset_class, t.asset_class) THEN FALSE
    ELSE TRUE

\* SelectedQuoteAdjuster.matches_instrument
MatchesInstrument(f, n) == IF ~f.nofilter THEN Matches(f, n) ELSE TRUE

\* if filter_instrument is not None and not filter_instrument.matches(inst):
\*     continue
RiskSkips(f, n) == ~f.nofilter /\ ~Matches(f, n)

\* The filters explored: every combination of these group values.
NameLists == {None, List({}), List({"x"}), List({"x", "z"})}
FamilyLists == {None, List({"IRS"}), List({"FUT", "FXSW"})}
CurrencyLists == {None, List({"a"}), List({"b"})}
RiskTypeLists == {None, List({"RATE"})}
AssetClassLists == {None, List({"FX"})}

AllFilters ==
    {NoFilter} \cup
    {[nofilter |-> FALSE,
      filter_instrument_name |-> g1, filter_instrument_family |-> g2,
      filter_currency |-> g3, filter_risk_type |-> g4,
      filter_asset_class |-> g5] :
        g1 \in NameLists, g2 \in FamilyLists, g3 \in CurrencyLists,
        g4 \in RiskTypeLists, g5 \in AssetClassLists}

\* filter.matches(i), as an adjuster's filter or as the filter of a risk run
CheckFilter(f, n, op) ==
    /\ fcheck.op = "init"
    /\ fcheck' = [op |-> op, f |-> f, n |-> n,
                  res |-> CASE op = "matches" -> Matches(f, n)
                            [] op = "adjuster" -> MatchesInstrument(f, n)
                            [] OTHER -> ~RiskSkips(f, n)]
    /\ UNCHANGED <<mktvars, fxvars, risk, scen, auxvars>>

NextFilter ==
    \/ \E f \in AllFilters \ {NoFilter}, n \in InstNames :
           CheckFilter(f, n, "matches")
    \/ \E f \in AllFilters, n \in InstNames : CheckFilter(f, n, "adjuster")
    \/ \E f \in AllFilters, n \in InstNames : CheckFilter(f, n, "risk")

SpecFilter == Init /\ [][NextFilter]_vars

\* ============================================================ pricers
\* Two swap pricers: pA discounts on the curve registered under kA and
\* reports in currency a; pC also projects on the curve of index iC and
\* reports in currency b.  par stands for the fixed leg.
PricerNames == {"pA", "pC"}
PricerCfg(p) ==
    CASE p = "pA" -> [discount |-> "kA", index |-> NoKey, ccy |-> "a", par |-> 1]
      [] p = "pC" -> [discount |-> "kA", index |-> "iC", ccy |-> "b", par |-> 3]

RECURSIVE SumQuotes(_, _)
SumQuotes(I, S) ==
    IF S = {} THEN 0
    ELSE LET i == CHOOSE i \in S : TRUE IN I[i].quote + SumQuotes(I, S \ {i})

\* Pricer.value(): the NPV is a function of the quotes read by the term
\* structures the pricer is linked to; the stand-in is their sum less par.
PricerValue(h, mk, p) ==
    LET cfg == PricerCfg(p)
        cs == {mk.discount_curves[cfg.discount]} \cup
              (IF cfg.index = NoKey THEN {} ELSE {mk.index_curves[cfg.index]})
    IN IF NoObj \in cs \/ \E c \in cs : ~IsBuilt(h.curves[c])
       THEN [err |-> "AqumenException", val |-> 0]
       ELSE [err |-> "",
             val |-> SumQuotes(h.insts,
                        UNION {Reads(h.qls, h.curves[c].ql) : c \in cs})
                     - cfg.par]

\* Pricer.calculate(Metric.RISK_VALUE): [(currency, value)]
RiskValue(h, mk, p) ==
    Then(PricerValue(h, mk, p), LAMBDA v :
        [err |-> v.err, res |-> <<[ccy |-> PricerCfg(p).ccy, value |-> v.val]>>])

\* defaultdict(float): values[vccy] += ccy_value, keys in insertion order
ValuesAdd(acc, ccy, v) ==
    IF \E k \in 1..Len(acc) : acc[k].ccy = ccy
    THEN [k \in 1..Len(acc) |->
             IF acc[k].ccy = ccy THEN [acc[k] EXCEPT !.value = @ + v] ELSE acc[k]]
    ELSE Append(acc, [ccy |-> ccy, value |-> v])

\* values[iccy] of a defaultdict(float)
ValueOf(acc, ccy) ==
    IF \E k \in 1..Len(acc) : acc[k].ccy = ccy
    THEN acc[CHOOSE k \in 1..Len(acc) : acc[k].ccy = ccy].value
    ELSE 0

\* for ccy_results in ...: vccy, ccy_value = ccy_results; values[vccy] += ...
RECURSIVE AddResults(_, _, _)
AddResults(acc, res, k) ==
    IF k > Len(res) THEN acc
    ELSE AddResults(ValuesAdd(acc, res[k].ccy, res[k].value), res, k + 1)

\* for p in pricers: ... p.calculate(Metric.RISK_VALUE) ...; st = [err, acc]
RECURSIVE CalcAll(_, _, _, _, _)
CalcAll(st, h, mk, pricers, k) ==
    IF st.err # "" \/ k > Len(pricers) THEN st
    ELSE Then(RiskValue(h, mk, pricers[k]), LAMBDA r :
             IF r.err # "" THEN [st EXCEPT !.err = r.err]
             ELSE CalcAll([st EXCEPT !.acc = AddResults(@, r.res, 1)],
                          h, mk, pricers, k + 1))

\* ====================================================== market risk
\* get_default_bump(), in quote units
DefaultBump == 1
FuturesScale == 100

\* family.bump_quote(old_quote, bump_size)
BumpQuote(n, old_quote, bump_size) ==
    IF InstType(n).futures THEN old_quote - bump_size * FuturesScale
    ELSE old_quote + bump_size

Abs(v) == IF v < 0 THEN -v ELSE v

\* try_get_tenor_time(instrument, market) called with nargs arguments.
TryGetTenorTime(nargs) ==
    IF nargs < 2 THEN [err |-> "TypeError", t |-> 0] ELSE [err |-> "", t |-> 0]

\* RiskResultRow(...) for the instrument object inst
RiskResultRow(I, inst, iccy, sens, t) ==
    LET n == I[inst].name IN
    [risk_currency |-> iccy, instrument |-> n, risk |-> sens,
     inst_family |-> InstType(n).family, inst_currency |-> InstType(n).currency,
     quote |-> I[inst].quote, asset_class |-> InstType(n).asset_class,
     risk_type |-> InstType(n).risk_type, tenor_time |-> t]

\* for iccy, ibase_value in base_values.items(): ...; st = [err, rows]
RECURSIVE RowsLoop(_, _, _, _)
RowsLoop(st, r, inst, k) ==
    IF st.err # "" \/ k > Len(r.base) THEN st
    ELSE LET iccy == r.base[k].ccy
             sens == (ValueOf(r.bumpv, iccy) - r.base[k].value) \div r.bsize
         IN IF r.rz /\ Abs(sens) < 1
            THEN RowsLoop(st, r, inst, k + 1)
            ELSE Then(TryGetTenorTime(1), LAMBDA t :
                     IF t.err # "" THEN [st EXCEPT !.err = t.err]
                     ELSE RowsLoop(
                            [st EXCEPT !.rows =
                               Append(@, RiskResultRow(insts, inst, iccy, sens, t.t))],
                            r, inst, k + 1))

\* The first position >= k of the instrument map whose instrument passes
\* the filter, or past the end.
RECURSIVE NextMatch(_, _, _)
NextMatch(mk, f, k) ==
    IF k > Len(InstOrder) THEN k
    ELSE IF mk.instruments[InstOrder[k]] = NoObj \/ RiskSkips(f, InstOrder[k])
    THEN NextMatch(mk, f, k + 1)
    ELSE k

\* (mutant) an error hands the rows collected so far to the caller.
RaiseReturnsRows(r, e) ==
    [r EXCEPT !.pc = "returned", !.err = e, !.ret = [set |-> TRUE, rows |-> r.rows]]

\* An exception leaves the function: nothing is returned.
Raise(r, e) == [r EXCEPT !.pc = "raised", !.err = e]

\* return results
Return(r) == [r EXCEPT !.pc = "returned", !.ret = [set |-> TRUE, rows |-> r.rows]]

\* The head of the in-place loop at position k.
IpAdvance(r, k) ==
    LET nm == NextMatch(markets[1], r.f, k) IN
    IF nm > Len(InstOrder) THEN Return(r)
    ELSE [r EXCEPT !.pc = "ip_base", !.k = nm]

\* The head of the loop of get_bumped_markets at position k.
FrAdvance(r, mk, k) ==
    LET nm == NextMatch(mk, r.f, k) IN
    IF nm > Len(InstOrder) THEN [r EXCEPT !.pc = "fr_base"]
    ELSE [r EXCEPT !.pc = "fr_derive", !.k = nm]

\* calculate_market_risk(pricers, filter_instrument, remove_zero_sens,
\* in_place_bumps) with pricers on markets[1]
RiskCall(ps, f, rz, ip) ==
    /\ risk.pc = "idle"
    /\ LET r == [NoRisk EXCEPT
                    !.in_place = ip, !.pricers = ps, !.f = f, !.rz = rz,
                    !.orig = [n \in InstNames |->
                                IF markets[1].instruments[n] = NoObj THEN 0
                                ELSE insts[markets[1].instruments[n]].quote]]
       IN risk' = IF ps = <<>> THEN Return(r)
                  ELSE IF ip THEN IpAdvance(r, 1)
                  ELSE FrAdvance(r, markets[1], 1)
    /\ UNCHANGED <<mktvars, fxvars, fcheck, scen, auxvars>>

\* The pricing loops, which end with an error when a pricer raises.
Pricing(mk, fail) ==
    IF fail THEN [err |-> "PricingError", acc |-> <<>>]
    ELSE CalcAll([err |-> "", acc |-> <<>>], H, mk, risk.pricers, 1)

\* base_values (in place, lines 148-152)
IpBase(fail) ==
    /\ risk.pc = "ip_base"
    /\ \E c \in {Pricing(markets[1], fail)} :
          risk' = IF c.err # "" THEN Raise(risk, c.err)
                  ELSE [risk EXCEPT !.pc = "ip_bump", !.base = c.acc]
    /\ UNCHANGED <<mktvars, fxvars, fcheck, scen, auxvars>>

\* old_inst_quote = inst.quote; ...; inst.set_quote(new_inst_quote)
IpBump ==
    /\ risk.pc = "ip_bump"
    /\ LET n == InstOrder[risk.k]
           inst == markets[1].instruments[n]
           old_inst_quote == insts[inst].quote
           bump_size == DefaultBump
           new_inst_quote == BumpQuote(n, old_inst_quote, bump_size)
       IN /\ insts' = SetQuoteObj(insts, inst, new_inst_quote)
          /\ risk' = [risk EXCEPT !.pc = "ip_bumped", !.old = old_inst_quote,
                                  !.bsize = bump_size, !.nbumped = @ + 1]
    /\ UNCHANGED <<curves, qls, markets, last, steps, fxvars, fcheck, scen, auxvars>>

\* bump_values (in place, lines 159-163)
IpBumped(fail) ==
    /\ risk.pc = "ip_bumped"
    /\ \E c \in {Pricing(markets[1], fail)} :
          risk' = IF c.err # "" THEN Raise(risk, c.err)
                  ELSE [risk EXCEPT !.pc = "ip_restore", !.bumpv = c.acc]
    /\ UNCHANGED <<mktvars, fxvars, fcheck, scen, auxvars>>

\* (mutant) the bumped quote is left in place.
RestoreSkipped(I, inst, old_inst_quote) == I

\* inst.set_quote(old_inst_quote)
RestoreQuote(I, inst, old_inst_quote) == SetQuoteObj(I, inst, old_inst_quote)

IpRestore ==
    /\ risk.pc = "ip_restore"
    /\ insts' = RestoreQuote(insts, markets[1].instruments[InstOrder[risk.k]],
                             risk.old)
    /\ risk' = [risk EXCEPT !.pc = "ip_rows"]
    /\ UNCHANGED <<curves, qls, markets, last, steps, fxvars, fcheck, scen, auxvars>>

\* the row loop (in place, lines 166-183) and the head of the next iteration
IpRows ==
    /\ risk.pc = "ip_rows"
    /\ \E st \in {RowsLoop([err |-> "", rows |-> risk.rows], risk,
                            markets[1].instruments[InstOrder[risk.k]], 1)} :
          risk' = IF st.err # "" THEN Raise([risk EXCEPT !.rows = st.rows], st.err)
                  ELSE IpAdvance([risk EXCEPT !.rows = st.rows], risk.k + 1)
    /\ UNCHANGED <<mktvars, fxvars, fcheck, scen, auxvars>>

\* One iteration of get_bumped_markets: the bumped Instrument, the derived
\* market and its BumpedInstrumentMarket record.
FrDerive ==
    /\ risk.pc = "fr_derive"
    /\ LET n == InstOrder[risk.k]
           inst == markets[1].instruments[n]
           bump_size == DefaultBump
           new_inst_quote == BumpQuote(n, insts[inst].quote, bump_size)
       IN \E r \in {NewMarketForInstruments(
                       [H EXCEPT !.insts = NewInstrument(insts, n, new_inst_quote)],
                       markets[1],
                       [m \in InstNames |-> IF m = n THEN Len(insts) + 1 ELSE NoObj])} :
            LET ok == r.h.err = ""
                mks == [markets EXCEPT ![1] = r.self]
                new == [r.new EXCEPT !.origin = "bump", !.parent = 1]
                b == [instrument |-> inst, market |-> Len(markets) + 1,
                      bump_size |-> bump_size, bump_type |-> 0]
            IN /\ insts' = r.h.insts
               /\ curves' = r.h.curves
               /\ qls' = r.h.qls
               /\ markets' = IF ok THEN Append(mks, new) ELSE mks
               /\ risk' = IF ~ok THEN Raise(risk, r.h.err)
                          ELSE FrAdvance([risk EXCEPT !.bumps = Append(@, b),
                                                     !.nbumped = @ + 1],
                                         r.self, risk.k + 1)
    /\ UNCHANGED <<last, steps, fxvars, fcheck, scen, auxvars>>

\* base_values (full rebuild, lines 201-205)
FrBase(fail) ==
    /\ risk.pc = "fr_base"
    /\ \E c \in {Pricing(markets[1], fail)} :
          risk' = IF c.err # "" THEN Raise(risk, c.err)
                  ELSE IF risk.bumps = <<>> THEN Return([risk EXCEPT !.base = c.acc])
                  ELSE [risk EXCEPT !.pc = "fr_bumped", !.base = c.acc, !.j = 1]
    /\ UNCHANGED <<mktvars, fxvars, fcheck, scen, auxvars>>

\* bump_values on the pricers rebound to bump market j (lines 207-212)
FrBumped(fail) ==
    /\ risk.pc = "fr_bumped"
    /\ \E c \in {Pricing(markets[risk.bumps[risk.j].market], fail)} :
          risk' = IF c.err # "" THEN Raise(risk, c.err)
                  ELSE [risk EXCEPT !.pc = "fr_rows", !.bumpv = c.acc,
                                    !.bsize = risk.bumps[risk.j].bump_size]
    /\ UNCHANGED <<mktvars, fxvars, fcheck, scen, auxvars>>

\* the row loop for bump market j (lines 213-231) and the next iteration
FrRows ==
    /\ risk.pc = "fr_rows"
    /\ LET name == insts[risk.bumps[risk.j].instrument].name
           instr == markets[1].instruments[name]
       IN \E st \in {RowsLoop([err |-> "", rows |-> risk.rows], risk, instr, 1)} :
            risk' = IF st.err # "" THEN Raise([risk EXCEPT !.rows = st.rows], st.err)
                    ELSE IF risk.j = Len(risk.bumps)
                    THEN Return([risk EXCEPT !.rows = st.rows])
                    ELSE [risk EXCEPT !.pc = "fr_bumped", !.rows = st.rows,
                                      !.j = @ + 1]
    /\ UNCHANGED <<mktvars, fxvars, fcheck, scen, auxvars>>

\* market.get_instrument(n).set_quote(q) before the risk call
RiskPrep(n, q) ==
    /\ risk.pc = "idle"
    /\ steps < MaxRiskPrep
    /\ SetQuote(1, n, q)
    /\ UNCHANGED <<fxvars, exvars>>

\* The calls explored.
RiskPricers == {<<>>, <<"pA">>, <<"pA", "pC">>}
RiskFilters ==
    {NoFilter,
     [EmptyFilter EXCEPT !.filter_instrument_name = List({"x"})],
     [EmptyFilter EXCEPT !.filter_instrument_family = List({"FUT", "FXSW"})],
     [EmptyFilter EXCEPT !.filter_currency = List({"b"})],
     [EmptyFilter EXCEPT !.filter_asset_class = List({"CASH"})]}

NextRisk ==
    \/ \E n \in InstNames, q \in Quotes : RiskPrep(n, q)
    \/ \E ps \in RiskPricers, f \in RiskFilters, rz \in BOOLEAN, ip \in BOOLEAN :
           RiskCall(ps, f, rz, ip)
    \/ \E fail \in BOOLEAN : IpBase(fail)
    \/ IpBump
    \/ \E fail \in BOOLEAN : IpBumped(fail)
    \/ IpRestore
    \/ IpRows
    \/ FrDerive
    \/ \E fail \in BOOLEAN : FrBase(fail)
    \/ \E fail \in BOOLEAN : FrBumped(fail)
    \/ FrRows

SpecRisk == Init /\ [][NextRisk]_vars

\* ========================================================= scenarios
\* SimpleQuoteAdjuster.apply_adjustment: the adjusted quote
AdjustedQuote(adj, quote) ==
    CASE adj.type = "RELATIVE" -> quote + quote * (1 + adj.v)
      [] adj.type = "ABSOLUTE" -> quote + adj.v
      [] OTHER -> adj.v

\* SimpleQuoteAdjuster.apply_adjustment(instrument): a new Instrument
ApplySimple(I, adj, inst) ==
    [err |-> "",
     insts |-> NewInstrument(I, I[inst].name, AdjustedQuote(adj, I[inst].quote)),
     id |-> Len(I) + 1]

\* TermStructureQuoteAdjuster.apply_adjustment(instrument); the adjustment
\* function is constant.
ApplyTerm(I, adj, inst) ==
    Then(TryGetTenorTime(1), LAMBDA pillar_time :
        IF pillar_time.err # ""
        THEN [err |-> pillar_time.err, insts |-> I, id |-> NoObj]
        ELSE ApplySimple(I, adj, inst))

\* adj.adjuster.apply_adjustment(inst)
ApplyAdjustment(I, adj, inst) ==
    IF adj.kind = "TERM" THEN ApplyTerm(I, adj, inst) ELSE ApplySimple(I, adj, inst)

\* for _, inst in market.get_instrument_map().items(): ...
\* st = [err, insts, affected]
RECURSIVE AdjustInstruments(_, _, _, _)
AdjustInstruments(st, mk, adj, k) ==
    IF st.err # "" \/ k > Len(InstOrder) THEN st
    ELSE LET inst == mk.instruments[InstOrder[k]] IN
         IF inst = NoObj \/ ~MatchesInstrument(adj.f, InstOrder[k])
         THEN AdjustInstruments(st, mk, adj, k + 1)
         ELSE Then(ApplyAdjustment(st.insts, adj, inst), LAMBDA a :
                  IF a.err # "" THEN [st EXCEPT !.err = a.err]
                  ELSE AdjustInstruments(
                         [st EXCEPT !.insts = a.insts,
                                    !.affected = Append(@, a.id)],
                         mk, adj, k + 1))

\* for adj in self.instrument_adjusments: ...
RECURSIVE AdjustAll(_, _, _, _)
AdjustAll(st, mk, adjs, k) ==
    IF st.err # "" \/ k > Len(adjs) THEN st
    ELSE Then(AdjustInstruments(st, mk, adjs[k], 1), LAMBDA st1 :
             AdjustAll(st1, mk, adjs, k + 1))

\* for inew_inst in new_instruments: new_inst_dict[inew_inst.name] = inew_inst
RECURSIVE ListToDict(_, _, _, _)
ListToDict(I, dict, list, k) ==
    IF k > Len(list) THEN dict
    ELSE ListToDict(I, [dict EXCEPT ![I[list[k]].name] = list[k]], list, k + 1)

\* AdjustQuotesScenario.create_market(market):
\* [h, self, new, err, stage, ncalls]
CreateMarket(h, market, adjs) ==
    Then(AdjustAll([err |-> "", insts |-> h.insts, affected |-> <<>>],
                   market, adjs, 1), LAMBDA st :
        IF st.err # ""
        THEN [h |-> [h EXCEPT !.insts = st.insts, !.err = st.err],
              self |-> market, new |-> EmptyMarket,
              stage |-> "adjust", ncalls |-> 0]
        ELSE Then(NewMarketForInstruments(
                      [h EXCEPT !.insts = st.insts], market,
                      ListToDict(st.insts, [n \in InstNames |-> NoObj],
                                 st.affected, 1)), LAMBDA r :
                 [h |-> r.h, self |-> r.self, new |-> r.new,
                  stage |-> IF r.h.err # "" THEN "derive" ELSE "",
                  ncalls |-> 1]))

\* Pricer.calculate(metric) for a metric that is one number
Calculate(h, mk, p) == PricerValue(h, mk, p)

RECURSIVE Gcd(_, _)
Gcd(a, b) == IF b = 0 THEN a ELSE Gcd(b, a % b)

\* n / d for d # 0, as a fraction in lowest terms with a positive denominator
Quotient(n, d) ==
    LET g == Gcd(Abs(n), Abs(d))
        sgn == IF d < 0 THEN -1 ELSE 1
    IN [inf |-> FALSE, num |-> sgn * (n \div g), den |-> sgn * (d \div g)]

\* the string "inf"
Inf == [inf |-> TRUE, num |-> 0, den |-> 0]

\* (mutant) the difference is taken the other way round.
ChangeAbsSwapped(scen_value, base_value) == base_value - scen_value

\* self.change_abs = self.scen_value - self.base_value
ChangeAbs(scen_value, base_value) == scen_value - base_value

\* ScenarioResultRow(...) and its model_post_init
ScenarioResultRow(pricer_name, base_value, scen_value) ==
    LET change_abs == ChangeAbs(scen_value, base_value) IN
    [pricer_name |-> pricer_name, base_value |-> base_value,
     scen_value |-> scen_value, change_abs |-> change_abs,
     change_rel |-> IF Abs(base_value) # 0 THEN Quotient(change_abs, base_value)
                    ELSE Inf,
     ndiv |-> IF Abs(base_value) # 0 THEN 1 ELSE 0]

\* calculate_scenario_impact(AdjustQuotesScenario(adjs), pricer p on
\* markets[1], metric)
ScenarioImpact(adjs, p) ==
    /\ scen.op = "init"
    /\ \E cm \in {CreateMarket(H, markets[1], adjs)} :
       LET ok == cm.h.err = ""
           mks == [markets EXCEPT ![1] = cm.self]
           scenario_market == [cm.new EXCEPT !.origin = "scenario", !.parent = 1]
           s0 == [NoScen EXCEPT
                     !.op = "impact", !.adjs = adjs, !.p = p,
                     !.orig = [n \in InstNames |->
                                 IF markets[1].instruments[n] = NoObj THEN 0
                                 ELSE insts[markets[1].instruments[n]].quote],
                     !.ncalls = cm.ncalls]
       IN /\ insts' = cm.h.insts
          /\ curves' = cm.h.curves
          /\ qls' = cm.h.qls
          /\ markets' = IF ok THEN Append(mks, scenario_market) ELSE mks
          /\ IF ~ok
             THEN scen' = [s0 EXCEPT !.err = cm.h.err, !.stage = cm.stage]
             ELSE \E base_value \in {Calculate(cm.h, cm.self, p)},
                     new_value \in {Calculate(cm.h, scenario_market, p)} :
                    scen' =
                      IF base_value.err # "" \/ new_value.err # ""
                      THEN [s0 EXCEPT !.d = Len(markets) + 1,
                                      !.err = IF base_value.err # ""
                                              THEN base_value.err
                                              ELSE new_value.err,
                                      !.stage = "pricing"]
                      ELSE LET row == ScenarioResultRow(p, base_value.val,
                                                        new_value.val)
                           IN [s0 EXCEPT !.d = Len(markets) + 1,
                                         !.rows = <<row>>, !.ndiv = row.ndiv]
    /\ UNCHANGED <<last, steps, fxvars, fcheck, risk, auxvars>>

\* add_instrument and set_quote calls on the base market before the scenario
ScenPrepAdd(n, q) ==
    /\ scen.op = "init"
    /\ steps < MaxScenPrep
    /\ AddInstrumentCall(1, n, q)
    /\ UNCHANGED <<fxvars, exvars>>

ScenPrepSet(n, q) ==
    /\ scen.op = "init"
    /\ steps < MaxScenPrep
    /\ SetQuote(1, n, q)
    /\ UNCHANGED <<fxvars, exvars>>

\* The adjusters and scenarios explored.
Adjuster(kind, type, v, f) == [kind |-> kind, type |-> type, v |-> v, f |-> f]
Abs0x ==
    Adjuster("SIMPLE", "ABSOLUTE", 0,
             [EmptyFilter EXCEPT !.filter_instrument_name = List({"x"})])
Abs0All == Adjuster("SIMPLE", "ABSOLUTE", 0, NoFilter)
Abs1a ==
    Adjuster("SIMPLE", "ABSOLUTE", 1,
             [EmptyFilter EXCEPT !.filter_currency = List({"a"})])
Fixed2xz ==
    Adjuster("SIMPLE", "FIXED", 2,
             [EmptyFilter EXCEPT !.filter_instrument_name = List({"x", "z"})])
Rel0All == Adjuster("SIMPLE", "RELATIVE", 0, NoFilter)
Term1z ==
    Adjuster("TERM", "ABSOLUTE", 1,
             [EmptyFilter EXCEPT !.filter_instrument_name = List({"z"})])

Scenarios ==
    {<<>>, <<Abs0x>>, <<Abs0All>>, <<Abs1a, Fixed2xz>>, <<Fixed2xz, Abs1a>>,
     <<Rel0All>>, <<Term1z>>, <<Abs1a, Term1z>>}

NextScen ==
    \/ \E q \in Quotes : ScenPrepAdd("x", q)
    \/ \E n \in {"x", "z"}, q \in Quotes : ScenPrepSet(n, q)
    \/ \E adjs \in Scenarios, p \in PricerNames : ScenarioImpact(adjs, p)

SpecScen == Init /\ [][NextScen]_vars

\* =================================================== curve life cycle
\* BootstrappedRateCurveQL(name=..., ...): model_post_init leaves _ql_curve
\* None.
ConstructedCurve(cn) ==
    LET cfg == Catalogue(cn) IN
    [name |-> cfg.name, instrument_ids |-> cfg.instrument_ids,
     discounting_id |-> cfg.discounting_id, dep_indices |-> cfg.dep_indices,
     prerequisite_curve_ids |-> cfg.prerequisite_curve_ids, ql |-> NoObj]

\* (mutant) a failing calibration leaves a half-made term structure behind.
BuildFailsDirty(h, cid) ==
    [h EXCEPT !.err = "RuntimeError", !.qls = Append(@, [handles |-> {}, deps |-> {}]),
              !.curves[cid].ql = Len(h.qls) + 1]

\* The bootstrap raises (rate_curve.py:125): the assignment of line 127 is
\* not reached.
BuildFails(h, cid) == [h EXCEPT !.err = "RuntimeError"]

\* c = BootstrappedRateCurveQL(...)
CurveConstruct(cn) ==
    /\ steps < MaxCurveSteps
    /\ Commit([H EXCEPT !.curves = Append(@, ConstructedCurve(cn))], markets,
              [NoLast EXCEPT !.op = "construct", !.d = Len(curves) + 1])

\* c.build(markets[m]); the calibration may fail
CurveBuild(c, m, fail) ==
    /\ steps < MaxCurveSteps
    /\ \E h \in {IF fail THEN BuildFails(H, c) ELSE Build(H, markets[m], c)} :
          Commit(h, markets,
                 [NoLast EXCEPT !.op = "build", !.d = c, !.m = m, !.err = h.err])

\* c.reset()
CurveReset(c) ==
    /\ steps < MaxCurveSteps
    /\ Commit(Reset(H, c), markets, [NoLast EXCEPT !.op = "reset", !.d = c])

\* copy.copy(c)
CurveCopy(c) ==
    /\ steps < MaxCurveSteps
    /\ Commit(CopyCurve(H, c), markets,
              [NoLast EXCEPT !.op = "copy", !.d = c])

\* c.zero_rate(dt), c.discount_factor(dt): read _base_date and _ql_curve
CurveQuery(c) ==
    /\ steps < MaxCurveSteps
    /\ Commit(H, markets,
              [NoLast EXCEPT !.op = "query", !.d = c,
                             !.err = IF IsBuilt(curves[c]) THEN ""
                                     ELSE "AttributeError"])

NextCurve ==
    \/ \E cn \in {"A", "C"} : CurveConstruct(cn) /\ UNCHANGED <<fxvars, exvars>>
    \/ \E c \in 1..Len(curves), m \in 1..Len(markets), fail \in BOOLEAN :
           CurveBuild(c, m, fail) /\ UNCHANGED <<fxvars, exvars>>
    \/ \E c \in 1..Len(curves) : CurveReset(c) /\ UNCHANGED <<fxvars, exvars>>
    \/ \E c \in 1..Len(curves) : CurveCopy(c) /\ UNCHANGED <<fxvars, exvars>>
    \/ \E c \in 1..Len(curves) : CurveQuery(c) /\ UNCHANGED <<fxvars, exvars>>
    \/ \E S \in {[n \in {"y"} |-> 2]} : Derive(1, S) /\ UNCHANGED <<fxvars, exvars>>

SpecCurve == Init /\ [][NextCurve]_vars

\* ================================================ dependency walks
\* Prerequisite declarations over the four curve names: a curve may name any
\* set of the curves before it in CurveOrder, so every graph is acyclic;
\* this includes chains and the diamond D -> {B, C} -> A.
Before(cn) ==
    {CurveOrder[j] : j \in {i \in 1..Len(CurveOrder) :
                               \E k \in 1..Len(CurveOrder) :
                                   CurveOrder[k] = cn /\ i < k}}

AcyclicGraphs == {g \in [CurveNames -> SUBSET CurveNames] :
                     \A cn \in CurveNames : g[cn] \subseteq Before(cn)}

\* The names of S as a list, in the order of CurveOrder.
ListOf(S) == SelectSeq(CurveOrder, LAMBDA cn : cn \in S)

\* A market whose curves declare the prerequisites of graph g.
GraphMarket(g) ==
    [h |-> Heap(<<[name |-> "x", quote |-> 1], [name |-> "y", quote |-> 1],
                  [name |-> "z", quote |-> 1]>>,
                [k \in 1..Len(CurveOrder) |->
                    [ConstructedCurve(CurveOrder[k]) EXCEPT
                        !.prerequisite_curve_ids = ListOf(g[CurveOrder[k]])]],
                <<>>),
     mk |-> [EmptyMarket EXCEPT
               !.instruments = [n1 \in InstNames |->
                   CHOOSE k \in 1..Len(InstOrder) : InstOrder[k] = n1],
               !.all_curves = [k \in 1..Len(CurveOrder) |->
                                  [name |-> CurveOrder[k], obj |-> k]]]]

InitWalk ==
    /\ \E g \in AcyclicGraphs :
         \E r \in {GraphMarket(g)} :
            /\ insts = r.h.insts
            /\ curves = r.h.curves
            /\ qls = r.h.qls
            /\ markets = <<r.mk>>
    /\ last = NoLast
    /\ steps = 0
    /\ FxInit
    /\ ExInit

\* (mutant) get_prerequisite_curve_ids hands out the curve's own list, so
\* the walk's ids.extend(...) lengthens the declaration.
PrereqListAliased(h, cid, ids) == ids

\* return list(self.prerequisite_curve_ids): the walk extends a copy, and
\* the curve's declaration is as before.
PrereqListAfterWalk(h, cid, ids) == h.curves[cid].prerequisite_curve_ids

\* get_indirect_curve_dependencies(market, c) and
\* get_indirect_curve_instruments(market, c)
WalkCall(c) ==
    /\ last.op = "init"
    /\ \E deps \in {GetIndirectCurveDependencies(H, markets[1], c)},
          ins \in {GetIndirectCurveInstruments(H, markets[1], c)} :
         Commit([H EXCEPT !.curves[c].prerequisite_curve_ids =
                              PrereqListAfterWalk(H, c, deps.ids)],
                markets,
                [NoLast EXCEPT !.op = "walk", !.d = c, !.log = deps.ids,
                               !.names = ins.ids, !.err = deps.err])

NextWalk ==
    \E c \in 1..Len(curves) : WalkCall(c) /\ UNCHANGED <<fxvars, exvars>>

SpecWalk == InitWalk /\ [][NextWalk]_vars

\* =========================================== cyclic declarations
\* Declarations in which every curve names at most one prerequisite among
\* the four curves and some curve reaches itself.
RECURSIVE Reaches(_, _, _, _)
Reaches(g, from, to, n) ==
    /\ n > 0
    /\ \E nx \in g[from] : nx = to \/ Reaches(g, nx, to, n - 1)

CyclicGraphs ==
    {g \in [CurveNames -> {{}} \cup {{cn} : cn \in CurveNames}] :
        \E cn \in CurveNames : Reaches(g, cn, cn, Cardinality(CurveNames))}

InitCycle ==
    /\ \E g \in CyclicGraphs :
         \E r \in {GraphMarket(g)} :
            /\ insts = r.h.insts
            /\ curves = r.h.curves
            /\ qls = r.h.qls
            /\ markets = <<r.mk>>
    /\ last = NoLast
    /\ steps = 0
    /\ FxInit
    /\ ExInit

NextCycle ==
    \E S \in ReplacementSets :
        last.op = "init" /\ Derive(1, S) /\ UNCHANGED <<fxvars, exvars>>

SpecCycle == InitCycle /\ [][NextCycle]_vars

\* ======================================================== quote database
\* schema/quote_db.py: the Quote table and its lookups. Dates are day
\* numbers (to_isoint is monotone in the date); added_timestamp is the
\* clock at the time of the save, which grows from one save to the next.
InstrumentIds == {"p", "q"}
Days == 1..3
Windows == {-1, 0, 1, 2}

\* check_existsence(date, instrument_id)
CheckExistence(db, date, id) ==
    \E k \in 1..Len(db) : db[k].quote_date = date /\ db[k].instrument_id = id

\* save_new_quote(inst, quote_dt, ..., ignore_if_exists)
SaveNewQuote(db, inst, qdt, ignore_if_exists) ==
    IF ignore_if_exists /\ CheckExistence(db, qdt, inst) THEN db
    ELSE Append(db, [instrument_id |-> inst, quote_date |-> qdt,
                     added_timestamp |-> Len(db) + 1])

\* .where((start_date <= Quote.quote_date <= end_date) & ...): the chained
\* comparison is (start_date <= Quote.quote_date) and (Quote.quote_date <=
\* end_date); its first operand is a query expression, which is true as a
\* Python value, so the where clause receives the second operand alone.
WindowQuery(db, start_date, end_date, id) ==
    {k \in 1..Len(db) : /\ db[k].quote_date <= end_date
                        /\ db[k].instrument_id = id}

\* max(quotes, key=lambda q: q.added_timestamp)
LatestQuote(db, ks) ==
    db[CHOOSE k \in ks :
          \A j \in ks : db[j].added_timestamp <= db[k].added_timestamp]

\* get_quote(date, instrument_id, sources=None, window)
GetQuote(db, date, instrument_id, window) ==
    IF window < 0 THEN [err |-> "LookupError", row |-> NoRow]
    ELSE LET quotes ==
                 IF window = 0
                 THEN {k \in 1..Len(db) :
                          /\ db[k].quote_date = date
                          /\ db[k].instrument_id = instrument_id}
                 ELSE WindowQuery(db, date - window, date, instrument_id)
         IN IF quotes = {} THEN [err |-> "", row |-> NoRow]
            ELSE [err |-> "", row |-> LatestQuote(db, quotes)]

DbSave(inst, qdt, ignore_if_exists) ==
    /\ Len(quote_db) < MaxQuotes
    /\ quote_db' = SaveNewQuote(quote_db, inst, qdt, ignore_if_exists)
    /\ dblast' = [NoDbLast EXCEPT !.op = "save", !.date = qdt,
                                  !.instrument_id = inst]
    /\ UNCHANGED dicts

DbGet(date, instrument_id, window) ==
    /\ \E r \in {GetQuote(quote_db, date, instrument_id, window)} :
          dblast' = [op |-> "get", date |-> date,
                     instrument_id |-> instrument_id, window |-> window,
                     err |-> r.err, row |-> r.row]
    /\ UNCHANGED <<dicts, quote_db>>

NextDb ==
    \/ \E inst \in InstrumentIds, qdt \in Days, ig \in BOOLEAN :
           DbSave(inst, qdt, ig) /\ UNCHANGED <<mktvars, fxvars, fcheck, risk, scen>>
    \/ \E date \in Days, id \in InstrumentIds, w \in Windows :
           DbGet(date, id, w) /\ UNCHANGED <<mktvars, fxvars, fcheck, risk, scen>>

SpecDb == Init /\ [][NextDb]_vars

\* ------------------------------------------ lookups after an overwrite
\* A market on which add_spot_FX("a", "b", r1) and add_spot_FX("a", "c", r2)
\* have been called, followed by further add_spot_FX calls on the two legs
\* and get_spot_FX calls on any pair.
InitLegs ==
    /\ InitMkt
    /\ ExInit
    /\ \E r1 \in FxRates, r2 \in FxRates :
       \E t1 \in {AddSpotFX(EmptyTable, <<>>, "a", "b", r1)} :
       \E t2 \in {AddSpotFX(t1.T, t1.rows, "a", "c", r2)} :
          /\ spot_fx_rates = t2.T
          /\ fx_rows = t2.rows
          /\ fx_recorded = t2.T
    /\ dfs = Dfs
    /\ fxlast = NoFxLast
    /\ fx_fresh = TRUE
    /\ fxsteps = 0

NextLegs ==
    \/ \E c2 \in {"b", "c"}, rate \in FxRates :
           FxAdd("a", c2, rate) /\ UNCHANGED <<mktvars, exvars>>
    \/ \E c1 \in Ccys, c2 \in Ccys :
           FxGet(c1, c2) /\ UNCHANGED <<mktvars, exvars>>

SpecLegs == InitLegs /\ [][NextLegs]_vars

\* ------------------------------------------- direct role registrations
\* market.add_discount_curve(key, c) / market.add_index_curve(key, c) called
\* with any existing curve object; an exception leaves the market as the
\* statements before the raise left it.
AddDiscount(m, key, c) ==
    /\ steps < MaxSteps
    /\ \E r \in {AddDiscountCurve(H, markets[m], key, c)} :
          Commit(H, [markets EXCEPT ![m] = r.mk],
                 [NoLast EXCEPT !.op = "add_discount_curve", !.m = m,
                                !.d = c, !.err = r.err])

AddIndex(m, key, c) ==
    /\ steps < MaxSteps
    /\ \E r \in {AddIndexCurve(H, markets[m], key, c)} :
          Commit(H, [markets EXCEPT ![m] = r.mk],
                 [NoLast EXCEPT !.op = "add_index_curve", !.m = m,
                                !.d = c, !.err = r.err])

\* c = BootstrappedRateCurveQL(name=name, <the other fields as for cn>)
ConstructAs(name, cn) ==
    /\ steps < MaxSteps
    /\ Commit([H EXCEPT !.curves =
                  Append(@, [ConstructedCurve(cn) EXCEPT !.name = name])],
              markets,
              [NoLast EXCEPT !.op = "construct", !.d = Len(curves) + 1])

\* A market to which the helpers added the first n curves of CurveOrder.
InitRoles ==
    /\ \E n \in 0..Len(CurveOrder) :
       \E r \in {InitMarket(n)} :
          /\ insts = r.h.insts
          /\ curves = r.h.curves
          /\ qls = r.h.qls
          /\ markets = <<r.mk>>
    /\ last = NoLast
    /\ steps = 0
    /\ FxInit
    /\ ExInit

NextRoles ==
    \/ \E m \in 1..Len(markets), cn \in CurveNames :
           AddCurve(m, cn) /\ UNCHANGED <<fxvars, exvars>>
    \/ \E m \in 1..Len(markets), S \in ReplacementSets :
           Derive(m, S) /\ UNCHANGED <<fxvars, exvars>>
    \/ \E m \in 1..Len(markets), key \in DiscKeys, c \in 1..Len(curves) :
           AddDiscount(m, key, c) /\ UNCHANGED <<fxvars, exvars>>
    \/ \E m \in 1..Len(markets), key \in IndexKeys, c \in 1..Len(curves) :
           AddIndex(m, key, c) /\ UNCHANGED <<fxvars, exvars>>
    \/ \E name \in {"A", "B"}, cn \in {"A", "B"} :
           ConstructAs(name, cn) /\ UNCHANGED <<fxvars, exvars>>

SpecRoles == InitRoles /\ [][NextRoles]_vars

\* ------------------------------------------------ one quote adjustment
\* adjuster.apply_adjustment(markets[1].get_instrument(n)) for a simple or
\* a term-structure adjuster of each type; last.quote is the quote of the
\* input instrument at the call and last.d the instrument returned.
AdjustmentValues == {0, 1, 2}

ApplyCall(kind, type, v, n) ==
    /\ steps < MaxSteps
    /\ \E inst \in {markets[1].instruments[n]} :
       \E r \in {ApplyAdjustment(insts, Adjuster(kind, type, v, NoFilter), inst)} :
          Commit([H EXCEPT !.insts = r.insts], markets,
                 [NoLast EXCEPT !.op = "apply_adjustment", !.names = {n},
                                !.quote = insts[inst].quote, !.d = r.id,
                                !.err = r.err,
                                !.log = <<Adjuster(kind, type, v, NoFilter)>>])

NextAdjust ==
    \/ \E n \in InstNames, q \in Quotes :
           SetQuote(1, n, q) /\ UNCHANGED <<fxvars, exvars>>
    \/ \E kind \in {"SIMPLE", "TERM"}, type \in {"RELATIVE", "ABSOLUTE", "FIXED"},
          v \in AdjustmentValues, n \in InstNames :
           ApplyCall(kind, type, v, n) /\ UNCHANGED <<fxvars, exvars>>

SpecAdjust == Init /\ [][NextAdjust]_vars

\* ======================================= dictionaries held by markets
\* new_market_for_instruments starts from copy.copy(self): the new market
\* refers to the spot_fx_rates and index_fixings objects of the market it
\* was copied from. DictOwner is the market whose constructor created them.
RECURSIVE DictOwner(_, _)
DictOwner(mks, m) ==
    IF mks[m].origin \in {"derive", "bump", "scenario"}
    THEN DictOwner(mks, mks[m].parent)
    ELSE m

\* the dictionaries market m refers to (D is dicts)
Held(D, mks, m) ==
    IF DictOwner(mks, m) \in DOMAIN D THEN D[DictOwner(mks, m)] ELSE NewDicts

\* a write through market m
Hold(D, mks, m, d) ==
    [o \in DOMAIN D \cup {DictOwner(mks, m)} |->
        IF o = DictOwner(mks, m) THEN d ELSE D[o]]

\* self.spot_fx_rates[ccy] raises KeyError on a plain dict without the row
MissingRow(fx, ccy) == fx.kind = "dict" /\ ccy \notin Range(fx.rows)

\* MarketView.add_spot_FX on the table object fx
AddSpotFXIn(fx, ccy1, ccy2, rate) ==
    IF ccy1 # ccy2 /\ MissingRow(fx, ccy1)
    THEN [err |-> "KeyError", fx |-> fx]
    ELSE Then(AddSpotFX(fx.T, fx.rows, ccy1, ccy2, rate), LAMBDA r :
             [err |-> r.err, fx |-> [fx EXCEPT !.T = r.T, !.rows = r.rows]])

\* MarketView.get_spot_FX on the table object fx
GetSpotFXIn(fx, ccy1, ccy2) ==
    IF ccy1 # ccy2 /\ (\/ MissingRow(fx, ccy1)
                       \/ fx.T[ccy1][ccy2] = NoRate /\ MissingRow(fx, ccy2))
    THEN [err |-> "KeyError", val |-> NoRate, fx |-> fx]
    ELSE Then(GetSpotFX(fx.T, fx.rows, ccy1, ccy2), LAMBDA r :
             [err |-> r.err, val |-> r.val,
              fx |-> [fx EXCEPT !.T = r.T, !.rows = r.rows]])

\* MarketView.add_index_fixings(index, [(date, value)]); valid is
\* ql_index.isValidFixingDate(date)
AddIndexFixings(fixings, name, value, valid) ==
    [names |-> fixings.names \cup {name},
     list |-> IF valid THEN [fixings.list EXCEPT ![name] = Append(@, value)]
              ELSE fixings.list]

\* MarketView.get_index_fixings(index)
GetIndexFixings(fixings, name) ==
    IF name \in fixings.names THEN fixings.list[name] ELSE <<>>

\* serialize_model: the SerializationHelper dump of market mk holding d
SerializeModel(h, mk, d) ==
    [instruments |-> [n \in InstNames |->
                        IF mk.instruments[n] = NoObj THEN 0
                        ELSE h.insts[mk.instruments[n]].quote],
     discount_curves |-> [k \in DiscKeys |->
                            IF mk.discount_curves[k] = NoObj THEN NoKey
                            ELSE h.curves[mk.discount_curves[k]].name],
     index_curves |-> [k \in IndexKeys |->
                         IF mk.index_curves[k] = NoObj THEN NoKey
                         ELSE h.curves[mk.index_curves[k]].name],
     index_fixings |-> d.fixings,
     all_curves |-> [k \in 1..Len(mk.all_curves) |->
                        [h.curves[mk.all_curves[k].obj] EXCEPT !.ql = NoObj]],
     all_curve_classes |-> [k \in 1..Len(mk.all_curves) |->
                               "BootstrappedRateCurveQL"],
     spot_fx_rates |-> [T |-> d.fx.T, rows |-> d.fx.rows]]

\* for curve_dump, curve_class in zip(...): curve = cls.model_validate(dump);
\* all_curves[curve.get_name()] = curve          st = [h, ac]
RECURSIVE ValidateCurves(_, _, _)
ValidateCurves(st, dumps, k) ==
    IF k > Len(dumps) THEN st
    ELSE ValidateCurves(
            [h |-> [st.h EXCEPT !.curves = Append(@, dumps[k])],
             ac |-> SetCurve(st.ac, dumps[k].name, Len(st.h.curves) + 1)],
            dumps, k + 1)

\* {k: all_curves[v] for k, v in data_dict[...].items()}
RolesByName(ac, roles) ==
    [k \in DOMAIN roles |->
        IF roles[k] = NoKey THEN NoObj
        ELSE GetCurveByName([all_curves |-> ac], roles[k])]

\* validate_insttype and the default handler on a dump: new Instrument and
\* curve objects, the role maps looked up by name, spot_fx_rates and
\* index_fixings as plain dictionaries, then model_post_init.
ValidateModel(h, data) ==
    LET S == [n \in {n1 \in InstNames : data.instruments[n1] # 0} |->
                 data.instruments[n]]
    IN
    Then(NewInstruments([insts |-> h.insts,
                         dict |-> [n \in InstNames |-> NoObj]], S, 1), LAMBDA ni :
    Then(ValidateCurves([h |-> [h EXCEPT !.insts = ni.insts], ac |-> <<>>],
                        data.all_curves, 1), LAMBDA vc :
    Then([EmptyMarket EXCEPT
             !.instruments = ni.dict,
             !.all_curves = vc.ac,
             !.discount_curves = RolesByName(vc.ac, data.discount_curves),
             !.index_curves = RolesByName(vc.ac, data.index_curves)], LAMBDA mk :
        [h |-> ModelPostInit(vc.h, mk), mk |-> mk,
         d |-> [fx |-> [kind |-> "dict", T |-> data.spot_fx_rates.T,
                        rows |-> data.spot_fx_rates.rows],
                fixings |-> data.index_fixings]])))

BkFrame == UNCHANGED <<fxvars, fcheck, risk, scen, quote_db, dblast>>

\* markets[m].add_spot_FX(ccy1, ccy2, rate)
BkAddSpotFX(m, ccy1, ccy2, rate) ==
    /\ steps < MaxSteps
    /\ \E r \in {AddSpotFXIn(Held(dicts, markets, m).fx, ccy1, ccy2, rate)} :
          /\ dicts' = Hold(dicts, markets, m,
                           [Held(dicts, markets, m) EXCEPT !.fx = r.fx])
          /\ Commit(H, markets, [NoLast EXCEPT !.op = "add_spot_FX", !.m = m,
                                               !.err = r.err])
    /\ BkFrame

\* markets[m].get_spot_FX(ccy1, ccy2)
BkGetSpotFX(m, ccy1, ccy2) ==
    /\ steps < MaxSteps
    /\ \E r \in {GetSpotFXIn(Held(dicts, markets, m).fx, ccy1, ccy2)} :
          /\ dicts' = Hold(dicts, markets, m,
                           [Held(dicts, markets, m) EXCEPT !.fx = r.fx])
          /\ Commit(H, markets, [NoLast EXCEPT !.op = "get_spot_FX", !.m = m,
                                               !.err = r.err])
    /\ BkFrame

\* markets[m].add_index_fixings(index, [(date, value)])
BkAddIndexFixings(m, name, value, valid) ==
    /\ steps < MaxSteps
    /\ dicts' = Hold(dicts, markets, m,
                     [Held(dicts, markets, m) EXCEPT
                         !.fixings = AddIndexFixings(@, name, value, valid)])
    /\ Commit(H, markets, [NoLast EXCEPT !.op = "add_index_fixings", !.m = m])
    /\ BkFrame

\* MarketView.model_validate_json(markets[m].model_dump_json())
RoundTrip(m) ==
    /\ steps < MaxSteps
    /\ \E data \in {SerializeModel(H, markets[m], Held(dicts, markets, m))} :
       \E r \in {ValidateModel(H, data)} :
          LET ok == r.h.err = ""
              new == [r.mk EXCEPT !.origin = "validate", !.parent = m]
          IN /\ dicts' = IF ok THEN Hold(dicts, Append(markets, new),
                                         Len(markets) + 1, r.d)
                         ELSE dicts
             /\ Commit(r.h, IF ok THEN Append(markets, new) ELSE markets,
                       [NoLast EXCEPT !.op = "validate", !.m = m,
                                      !.d = IF ok THEN Len(markets) + 1 ELSE 0,
                                      !.err = r.h.err])
    /\ BkFrame

\* A market on which add_spot_FX recorded nothing, (a, b), or (a, b) and
\* (a, c).
InitBooks ==
    /\ InitMkt
    /\ FxInit
    /\ fcheck = NoCheck
    /\ risk = NoRisk
    /\ scen = NoScen
    /\ quote_db = <<>>
    /\ dblast = NoDbLast
    /\ \E r1 \in FxRates, r2 \in FxRates :
       \E t1 \in {AddSpotFXIn(NewDicts.fx, "a", "b", r1)} :
       \E t2 \in {AddSpotFXIn(t1.fx, "a", "c", r2)} :
       \E fx \in {NewDicts.fx, t1.fx, t2.fx} :
          dicts = (1 :> [NewDicts EXCEPT !.fx = fx])

NextBooks ==
    \/ \E m \in 1..Len(markets) :
           Derive(m, [n \in {"x"} |-> 2]) /\ UNCHANGED <<fxvars, exvars>>
    \/ \E m \in 1..Len(markets), n \in {"x", "y"}, q \in Quotes :
           SetQuote(m, n, q) /\ UNCHANGED <<fxvars, exvars>>
    \/ \E m \in 1..Len(markets), c2 \in {"b", "c"}, rate \in FxRates :
           BkAddSpotFX(m, "a", c2, rate)
    \/ \E m \in 1..Len(markets), c1 \in Ccys, c2 \in Ccys :
           c1 # c2 /\ BkGetSpotFX(m, c1, c2)
    \/ \E m \in 1..Len(markets), valid \in BOOLEAN :
           BkAddIndexFixings(m, "iB", 1, valid)
    \/ \E m \in 1..Len(markets) : RoundTrip(m)

SpecBooks == InitBooks /\ [][NextBooks]_vars

\* ======================================================= properties
IsPass(l) == l.op \in {"derive", "assemble"}

\* The curves reachable from curve object cid of market mk over
\* prerequisite-curve edges, as the least fixpoint of the edge relation.
PrereqNames(C, mk, names) ==
    UNION {Range(C[GetCurveByName(mk, cn)].prerequisite_curve_ids) :
              cn \in {n \in names : GetCurveByName(mk, n) # NoObj}}

RECURSIVE Closure(_, _, _)
Closure(C, mk, names) ==
    Then(names \cup PrereqNames(C, mk, names), LAMBDA nxt :
        IF nxt = names THEN names ELSE Closure(C, mk, nxt))

ReachableCurves(C, mk, cid) ==
    Closure(C, mk, Range(C[cid].prerequisite_curve_ids))

\* The transitive instrument-dependency set of curve object cid in mk.
TransitiveInstruments(C, mk, cid) ==
    Range(C[cid].instrument_ids) \cup
    UNION {Range(C[GetCurveByName(mk, cn)].instrument_ids) :
              cn \in {n \in ReachableCurves(C, mk, cid) :
                         GetCurveByName(mk, n) # NoObj}}

Logged(l) == {l.log[k].curve : k \in 1..Len(l.log)}

\* C1: new_market_for_instruments leaves the market it is called on
\* unchanged: the same instrument objects with the same quotes, the same
\* curve objects in all_curves and in both role maps, and every curve of it
\* with the same built state and the same calibrated output.
C1_DeriveLeavesBaseUnchanged ==
    [][last'.op = "derive" =>
         LET M == markets[last'.m] IN
         /\ markets'[last'.m] = M
         /\ \A n \in InstNames :
               M.instruments[n] # NoObj =>
                   insts'[M.instruments[n]] = insts[M.instruments[n]]
         /\ \A c \in CurveObjs(M) :
               /\ curves'[c] = curves[c]
               /\ Output(insts', qls', curves'[c].ql)
                      = Output(insts, qls, curves[c].ql)]_vars

C1_Witness ==
    /\ last.op = "derive" /\ last.err = "" /\ last.reset # {}
    /\ \E n \in last.names :
          insts[markets[last.d].instruments[n]].quote
              # insts[markets[last.m].instruments[n]].quote

\* C2: in a derived market the copy of a curve was reset and passed to
\* build() exactly when the curve's transitive instrument-dependency set
\* contains a replaced name; every other copy is Built, was not passed to
\* build() and holds the term structure of the original curve.
C2_SelectiveRebuild ==
    (last.op = "derive" /\ last.err = "") =>
        LET M == markets[last.m]
            D == markets[last.d] IN
        \A k \in 1..Len(M.all_curves) :
            LET old == M.all_curves[k].obj
                new == GetCurveByName(D, M.all_curves[k].name)
                hit == (TransitiveInstruments(curves, M, old)
                            \cap last.names) # {}
            IN /\ new # NoObj
               /\ IsBuilt(curves[new])
               /\ hit <=> M.all_curves[k].name \in last.reset
               /\ hit <=> new \in Logged(last)
               /\ hit <=> curves[new].ql # curves[old].ql

C2_Witness ==
    /\ last.op = "derive" /\ last.err = ""
    /\ last.names = {"y"}
    /\ last.reset = {"B", "C"}
    /\ Len(markets[last.d].all_curves) = 4

\* C3: the curves of a derived market are objects of their own: deriving
\* (which resets and rebuilds copies) changes neither the built state nor the
\* calibrated output of any curve of the base market or of any other market,
\* and the new market shares no curve object with them.
C3_IndependentBuildState ==
    [][last'.op = "derive" =>
         \A k \in 1..Len(markets) :
             /\ \A c \in CurveObjs(markets[k]) :
                   /\ curves'[c].ql = curves[c].ql
                   /\ Output(insts', qls', curves'[c].ql)
                          = Output(insts, qls, curves[c].ql)
             /\ last'.d # 0 =>
                   CurveObjs(markets'[last'.d]) \cap CurveObjs(markets[k]) = {}
       ]_vars

C3_Witness ==
    /\ last.op = "derive" /\ last.err = "" /\ last.reset # {}
    /\ \E k \in 1..Len(markets) :
          /\ k # last.d
          /\ markets[k].origin = "derive"
          /\ markets[k].parent = last.m
          /\ \E cn \in last.reset :
                IsBuilt(curves[GetCurveByName(markets[k], cn)])

\* C4: when model_post_init or new_market_for_instruments returns, every
\* curve in the market's all_curves is Built.
C4_AllBuiltAfterPass ==
    (IsPass(last) /\ last.err = "") =>
        \A c \in CurveObjs(markets[last.d]) : IsBuilt(curves[c])

C4_Witness ==
    /\ last.op = "assemble" /\ last.err = ""
    /\ Len(last.log) >= 3
    /\ \A c \in CurveObjs(markets[last.d]) : IsBuilt(curves[c])

\* C5: every Built curve of a market reads the quote handles of exactly the
\* instrument objects the market maps the curve's prerequisite instrument
\* names to (so a set_quote on market.get_instrument(name) reaches it).
C5_BuiltCurvesReadMarketQuotes ==
    \A m \in 1..Len(markets) :
        \A c \in CurveObjs(markets[m]) :
            IsBuilt(curves[c]) =>
                qls[curves[c].ql].handles =
                    {markets[m].instruments[n] :
                        n \in Range(curves[c].instrument_ids)}

\* C6: in one rebuild-if-needed pass build() is invoked on a curve only when
\* every curve named in its prerequisite list is Built in that market, never
\* on a Built curve, and exactly once on each curve that was Unbuilt.
C6_BuildOrder ==
    IsPass(last) =>
        /\ \A k \in 1..Len(last.log) :
              last.log[k].prereqsBuilt /\ ~last.log[k].wasBuilt
        /\ \A j, k \in 1..Len(last.log) :
              last.log[j].curve = last.log[k].curve => j = k
        /\ last.err = "" =>
              {curves[c].name : c \in Logged(last)} = last.reset

C6_Witness ==
    /\ last.op = "assemble" /\ last.err = ""
    /\ Len(last.log) = 4
    /\ curves[last.calls[1].curve].name = "D"
    /\ curves[last.log[1].curve].name = "A"

\* The curves in U reached from cid through curves in U only (cid included).
RECURSIVE UnbuiltChain(_, _, _, _)
UnbuiltChain(C, mk, U, S) ==
    Then(S \cup
         ({GetCurveByName(mk, cn) :
              cn \in UNION {Range(C[c].prerequisite_curve_ids) : c \in S}}
          \cap U), LAMBDA nxt :
        IF nxt = S THEN S ELSE UnbuiltChain(C, mk, U, nxt))

Unresolved(C, mk, cs) ==
    \E c \in cs : \E cn \in Range(C[c].prerequisite_curve_ids) :
        GetCurveByName(mk, cn) = NoObj

\* C7 as stated: maybe_rebuild_curve raises the corrupted-market error
\* whenever a prerequisite name declared by the curve, or by a curve reached
\* through its prerequisites, does not resolve, Built or not.
C7_RaisesAlsoWhenBuilt ==
    IsPass(last) =>
        \A k \in 1..Len(last.calls) :
            LET e == last.calls[k]
                reach == {e.curve} \cup
                         {GetCurveByName(last.mkt, cn) :
                             cn \in ReachableCurves(curves, last.mkt, e.curve)}
            IN Unresolved(curves, last.mkt, reach \ {NoObj})
                   => e.err = "corrupted"

\* C7 amended: maybe_rebuild_curve on a Built curve returns without raising;
\* on an Unbuilt curve it raises the corrupted-market error exactly when a
\* prerequisite name declared by it, or by an Unbuilt curve reached from it
\* through Unbuilt curves, does not resolve.
C7_RaisesOnUnbuiltChain ==
    IsPass(last) =>
        \A k \in 1..Len(last.calls) :
            LET e == last.calls[k] IN
            /\ e.curve \notin e.unbuilt => e.err = ""
            /\ e.curve \in e.unbuilt =>
                  (e.err = "corrupted" <=>
                      Unresolved(curves, last.mkt,
                          UnbuiltChain(curves, last.mkt, e.unbuilt, {e.curve})))

C7_Witness ==
    /\ last.op = "assemble" /\ last.err = "corrupted"
    /\ \E k \in 1..Len(last.calls) :
          /\ last.calls[k].err = "corrupted"
          /\ last.calls[k].curve \in last.calls[k].unbuilt
          /\ \A cn \in Range(curves[last.calls[k].curve].prerequisite_curve_ids) :
                GetCurveByName(last.mkt, cn) # NoObj

\* ---------------------------------------------------------- FX claims
Entries(T) == {p \in Ccys \X Ccys : T[p[1]][p[2]] # NoRate}

\* The last call was get_spot_FX(c1, c2) on a table in which add_spot_FX
\* recorded only (a, c1) and (a, c2), every cached value being computed
\* from these entries.
OnlyTwoLegs(a, c1, c2) ==
    /\ fxlast.op = "get_spot_FX"
    /\ fxlast.c1 = c1 /\ fxlast.c2 = c2
    /\ a # c1 /\ a # c2 /\ c1 # c2
    /\ fx_fresh
    /\ Entries(fx_recorded) = {<<a, c1>>, <<a, c2>>}

\* C8 as stated: with only (a,b) and (a,c) recorded, get_spot_FX(b,c)
\* returns rate(a,c)/rate(a,b) (and so get_spot_FX(c,b) returns
\* rate(a,b)/rate(a,c)), whichever of the two is queried first.
C8_TriangulatedWhicheverFirst ==
    \A a \in Ccys, c1 \in Ccys, c2 \in Ccys :
        OnlyTwoLegs(a, c1, c2) =>
            /\ fxlast.err = ""
            /\ fxlast.val = FDiv(fx_recorded[a][c2], fx_recorded[a][c1])

\* C8 amended: with only (a,b) and (a,c) recorded, the direction queried
\* first returns the quotient of the two recorded rates, rate(a,c2)/rate(a,c1),
\* and caches it; the opposite direction, queried afterwards, returns 1.0
\* divided by that cached value.
C8_TriangulatedByQueryOrder ==
    \A a \in Ccys, c1 \in Ccys, c2 \in Ccys :
        OnlyTwoLegs(a, c1, c2) =>
            /\ fxlast.err = ""
            /\ fxlast.val =
                 IF fxlast.pre[c2][c1] # NoRate
                 THEN FDiv(One, FDiv(fx_recorded[a][c1], fx_recorded[a][c2]))
                 ELSE FDiv(fx_recorded[a][c2], fx_recorded[a][c1])

\* The pair is queried after its opposite was triangulated and cached.
C8_Witness ==
    \E a \in Ccys, c1 \in Ccys, c2 \in Ccys :
        /\ OnlyTwoLegs(a, c1, c2)
        /\ fxlast.pre[c2][c1] # NoRate
        /\ fxlast.err = ""

\* A leg between t and c counts as known when (t,c) or (c,t) was recorded.
LegRecorded(R, t, c) == R[t][c] # NoRate \/ R[c][t] # NoRate

ClaimedResolvable(R, c1, c2) ==
    \/ c1 = c2
    \/ R[c1][c2] # NoRate
    \/ R[c2][c1] # NoRate
    \/ \E t \in Ccys \ {c1, c2} : LegRecorded(R, t, c1) /\ LegRecorded(R, t, c2)

\* C9 as stated: get_spot_FX(c1, c2) returns a rate whenever c1 = c2, or the
\* pair is recorded directly or in reverse, or a third currency has both
\* legs recorded in either direction; it raises only when none of these holds.
C9_ResolvableByEitherLeg ==
    fxlast.op = "get_spot_FX" =>
        (fxlast.err = "" <=> ClaimedResolvable(fx_recorded, fxlast.c1, fxlast.c2))

\* The entries of the table (recorded or cached) that resolve the pair.
TableResolves(T, c1, c2) ==
    \/ c1 = c2
    \/ T[c1][c2] # NoRate
    \/ T[c2][c1] # NoRate
    \/ \E t \in Ccys : T[t][c1] # NoRate /\ T[t][c2] # NoRate

\* C9 amended: get_spot_FX(c1, c2) returns a rate exactly when c1 = c2, or
\* the table holds (c1,c2) or (c2,c1), or some currency t has both (t,c1)
\* and (t,c2) in the table; otherwise it raises KeyError.  A leg recorded
\* only as (c,t) does not count.
C9_ResolvableFromRowOfTable ==
    fxlast.op = "get_spot_FX" =>
        /\ fxlast.err = "" <=> TableResolves(fxlast.pre, fxlast.c1, fxlast.c2)
        /\ fxlast.err \in {"", "KeyError"}
        /\ fxlast.err = "" => fxlast.val # NoRate

\* Both legs are recorded, in reverse, and the lookup raises.
C9_Witness ==
    /\ fxlast.op = "get_spot_FX"
    /\ fxlast.err = "KeyError"
    /\ ClaimedResolvable(fx_recorded, fxlast.c1, fxlast.c2)

\* spot(c1,c2) * DF(csa1 or c1) / DF(csa2 or c2), a lookup error when the
\* spot rate or one of the discount curves is missing.
SpotTimesDfRatio(l) ==
    LET df1 == dfs[DfId(l.c1, l.csa1)]
        df2 == dfs[DfId(l.c2, l.csa2)]
        s == GetSpotFX(l.pre, l.prerows, l.c1, l.c2)
    IN IF df1 = NoRate \/ df2 = NoRate \/ s.err # ""
       THEN l.err = "KeyError"
       ELSE l.err = "" /\ l.val = FDiv(FMul(s.val, df1), df2)

\* C10 as stated: for all c1, c2, including c1 = c2, and all csa1, csa2,
\* get_fwd_FX equals get_spot_FX(c1,c2) * DF(csa1 or c1) / DF(csa2 or c2).
C10_FwdIsSpotTimesDfRatioAlways ==
    fxlast.op = "get_fwd_FX" => SpotTimesDfRatio(fxlast)

\* C10 amended: for c1 # c2, get_fwd_FX equals
\* get_spot_FX(c1,c2) * DF(csa1 or c1) / DF(csa2 or c2); for c1 = c2 it
\* returns 1.0 whatever csa1 and csa2 are, without looking up a curve.
C10_FwdIsSpotTimesDfRatioForDistinct ==
    fxlast.op = "get_fwd_FX" =>
        IF fxlast.c1 = fxlast.c2
        THEN fxlast.err = "" /\ fxlast.val = One
        ELSE SpotTimesDfRatio(fxlast)

\* A forward rate between distinct currencies, discounted on a CSA curve.
C10_Witness ==
    /\ fxlast.op = "get_fwd_FX"
    /\ fxlast.c1 # fxlast.c2
    /\ fxlast.csa1 # NoKey
    /\ fxlast.err = ""
    /\ fxlast.val # fxlast.pre[fxlast.c1][fxlast.c2]

\* ------------------------------------------------- add_instrument (C11)
\* The quote of the first Instrument registered under name n: only
\* successful add_instrument calls create Instrument objects here.
FirstRegistered(I, n) ==
    I[CHOOSE i \in 1..Len(I) :
         I[i].name = n /\ \A j \in 1..(i - 1) : I[j].name # n].quote

\* C11: add_instrument with a name already present and a different quote
\* raises and leaves the instrument map unchanged; with an equal quote (or a
\* new name) it succeeds; after any sequence of add_instrument calls each
\* registered name maps to one instrument, whose quote is the one first
\* registered under that name.
C11_FirstQuoteKept ==
    [][last'.op = "add_instrument" =>
        \A n \in last'.names :
          LET old == markets[1].instruments[n]
              new == markets'[1].instruments[n]
          IN /\ IF old # NoObj /\ insts[old].quote # last'.quote
                THEN /\ last'.err = "KeyError"
                     /\ markets' = markets
                     /\ insts' = insts
                ELSE /\ last'.err = ""
                     /\ new # NoObj
                     /\ insts'[new].name = n
                     /\ insts'[new].quote = last'.quote
                     /\ \A k \in InstNames \ {n} :
                           markets'[1].instruments[k] = markets[1].instruments[k]
             /\ \A k \in InstNames :
                   LET o == markets'[1].instruments[k] IN
                   IF o = NoObj THEN \A i \in 1..Len(insts') : insts'[i].name # k
                   ELSE /\ insts'[o].name = k
                        /\ insts'[o].quote = FirstRegistered(insts', k)]_vars

\* A name registered at one quote was offered again at the other quote and
\* again at its own quote.
C11_Witness ==
    /\ last.op = "add_instrument"
    /\ last.err = ""
    /\ \E n \in last.names :
         Cardinality({i \in 1..Len(insts) : insts[i].name = n}) >= 2

\* ------------------------------------------------ role maps of D (C12)
RoleObjs(mk) ==
    ({mk.discount_curves[k] : k \in DiscKeys}
     \cup {mk.index_curves[k] : k \in IndexKeys}) \ {NoObj}

\* Role map rd of D against role map rm of M, over the keys K.
Rebound(M, D, rm, rd, K) ==
    \A key \in K :
        /\ rd[key] # NoObj <=> rm[key] # NoObj
        /\ rm[key] # NoObj =>
              /\ rd[key] = GetCurveByName(D, curves[rm[key]].name)
              /\ curves[rd[key]].name = curves[rm[key]].name

\* C12: after D = M.new_market_for_instruments(S), the role maps of D have
\* the keys of M's, each key maps to the curve instance D.all_curves holds
\* under the name of the curve M maps the key to, and no role-map entry of D
\* is a curve instance of M.
C12_RoleMapsRebound ==
    (last.op = "derive" /\ last.err = "") =>
        LET M == markets[last.m]
            D == markets[last.d]
        IN /\ Rebound(M, D, M.discount_curves, D.discount_curves, DiscKeys)
           /\ Rebound(M, D, M.index_curves, D.index_curves, IndexKeys)
           /\ RoleObjs(D) \cap (RoleObjs(M) \cup CurveObjs(M)) = {}

\* A derivation of a market that has discount and index roles.
C12_Witness ==
    /\ last.op = "derive" /\ last.err = ""
    /\ markets[last.m].discount_curves["kA"] # NoObj
    /\ markets[last.m].index_curves["iC"] # NoObj
    /\ last.reset # {}

\* ------------------------------------------------ InstrumentFilter (C17)
\* The field of the instrument named n that a group constrains.
FieldOf(n, group) ==
    CASE group = "name" -> n
      [] group = "family" -> InstType(n).family
      [] group = "currency" -> InstType(n).currency
      [] group = "risk_type" -> InstType(n).risk_type
      [] OTHER -> InstType(n).asset_class

GroupOf(f, group) ==
    CASE group = "name" -> f.filter_instrument_name
      [] group = "family" -> f.filter_instrument_family
      [] group = "currency" -> f.filter_currency
      [] group = "risk_type" -> f.filter_risk_type
      [] OTHER -> f.filter_asset_class

Groups == {"name", "family", "currency", "risk_type", "asset_class"}

\* C17: matches(i) is true iff for every group that is set the instrument's
\* value for that field is in the group's list; a filter with no group set,
\* and an adjuster or a risk calculation given no filter, match everything.
C17_AndAcrossOrWithin ==
    fcheck.op # "init" =>
        fcheck.res =
            (fcheck.f.nofilter \/
             \A g \in Groups :
                 GroupOf(fcheck.f, g).set =>
                     FieldOf(fcheck.n, g) \in GroupOf(fcheck.f, g).vals)

\* An instrument admitted by one set group and refused by another.
C17_Witness ==
    /\ fcheck.op = "matches"
    /\ ~fcheck.res
    /\ fcheck.f.filter_currency.set
    /\ InstType(fcheck.n).currency \in fcheck.f.filter_currency.vals
    /\ fcheck.f.filter_risk_type.set
    /\ InstType(fcheck.n).risk_type \notin fcheck.f.filter_risk_type.vals

\* ------------------------------------------------------ market risk
\* The instruments of the base market the filter of the run lets through.
Matched ==
    {n \in InstNames : markets[1].instruments[n] # NoObj /\ ~RiskSkips(risk.f, n)}

\* The quote market mk holds for the instrument named n.
QuoteIn(mk, n) == insts[mk.instruments[n]].quote

RunEnded == risk.pc \in {"returned", "raised"}

\* One derived market for the instrument named n: its quote is the bumped
\* base quote and every other quote is the base quote.
BumpMarketFor(n, j) ==
    LET b == risk.bumps[j]
        D == markets[b.market] IN
    /\ insts[b.instrument].name = n
    /\ b.bump_size = DefaultBump
    /\ QuoteIn(D, n) = BumpQuote(n, risk.orig[n], DefaultBump)
    /\ \A m \in InstNames \ {n} :
           markets[1].instruments[m] # NoObj => QuoteIn(D, m) = risk.orig[m]

BumpMarketsAsClaimed ==
    (RunEnded /\ ~risk.in_place /\ risk.pricers # <<>> /\ risk.pc = "returned") =>
        /\ Len(risk.bumps) = Cardinality(Matched)
        /\ \A n \in Matched : \E j \in 1..Len(risk.bumps) : BumpMarketFor(n, j)

\* The rows claimed for bump market j: one per currency of the base values,
\* with the sensitivity (bumped - base) / bump size and the base quote.
RowsFor(n, j) ==
    LET b == risk.bumps[j]
        bumpv == CalcAll([err |-> "", acc |-> <<>>], H, markets[b.market],
                         risk.pricers, 1).acc IN
    \A k \in 1..Len(risk.base) :
        LET sens == (ValueOf(bumpv, risk.base[k].ccy) - risk.base[k].value)
                        \div b.bump_size IN
        ~(risk.rz /\ sens = 0) =>
            \E i \in 1..Len(risk.ret.rows) :
                /\ risk.ret.rows[i].instrument = n
                /\ risk.ret.rows[i].risk_currency = risk.base[k].ccy
                /\ risk.ret.rows[i].risk = sens
                /\ risk.ret.rows[i].quote = risk.orig[n]

\* C13: a full-rebuild run in which no pricer fails creates one derived
\* market per matching instrument, holding the bumped quote for it and the
\* base quote for every other instrument, and returns per currency a row
\* with the sensitivity (bumped - base) / bump size and the base quote.
C13_FullRebuildReportsSensitivities ==
    (RunEnded /\ ~risk.in_place /\ risk.pricers # <<>>
        /\ risk.err # "PricingError") =>
        /\ risk.ret.set
        /\ Len(risk.bumps) = Cardinality(Matched)
        /\ \A n \in Matched :
               \E j \in 1..Len(risk.bumps) : BumpMarketFor(n, j) /\ RowsFor(n, j)

\* The instruments of the live market whose quote is not the quote they
\* held when the run started.
Differing == {n \in InstNames : markets[1].instruments[n] # NoObj
                                   /\ QuoteIn(markets[1], n) # risk.orig[n]}

\* C14: during an in-place run at most one quote differs from its original
\* value, none differs when an instrument is about to be bumped, and none
\* differs when the function has returned.
C14_InPlaceRestoresQuotes ==
    (risk.pc # "idle" /\ risk.in_place) =>
        /\ Cardinality(Differing) <= 1
        /\ risk.pc \in {"ip_base", "ip_bump", "returned"} => Differing = {}

\* An in-place run that returned after bumping two instruments.
C14_Witness ==
    /\ risk.in_place
    /\ risk.pc = "returned"
    /\ risk.nbumped >= 2
    /\ \E n \in InstNames : risk.orig[n] = 2

\* C15: when a run of either strategy ended with an error, no RiskResult was
\* returned: the error left the function.
C15_ErrorReturnsNothing ==
    risk.err # "" => (risk.pc = "raised" /\ ~risk.ret.set)

\* A pricer failed for the second instrument of the loop.
C15_Witness ==
    /\ risk.pc = "raised"
    /\ risk.err = "PricingError"
    /\ risk.nbumped >= 2

\* -------------------------------------------------------- scenarios
\* The positions of the adjusters of the scenario that match instrument n.
MatchingAdjusters(n) ==
    {k \in 1..Len(scen.adjs) : MatchesInstrument(scen.adjs[k].f, n)}

Max(S) == CHOOSE k \in S : \A j \in S : j <= k

\* The quotes claimed for the scenario market D.
MergedQuotes(D) ==
    \A n \in InstNames :
        markets[1].instruments[n] # NoObj =>
            QuoteIn(D, n) =
                IF MatchingAdjusters(n) = {} THEN scen.orig[n]
                ELSE AdjustedQuote(scen.adjs[Max(MatchingAdjusters(n))],
                                   scen.orig[n])

\* C18: create_market calls new_market_for_instruments exactly once, and in
\* the market it returns an instrument matched by no adjuster keeps its base
\* quote and any other holds the quote the last matching adjuster makes of
\* the base quote.
C18_OneDeriveLastAdjusterWins ==
    scen.op = "impact" =>
        /\ scen.ncalls = 1
        /\ scen.d # 0 => MergedQuotes(markets[scen.d])

\* What holds of the source: the same for scenarios whose adjusters are all
\* SimpleQuoteAdjuster.
SimpleAdjustersMerged ==
    (scen.op = "impact" /\ \A k \in 1..Len(scen.adjs) : scen.adjs[k].kind = "SIMPLE")
        => /\ scen.ncalls = 1
           /\ scen.d # 0
           /\ MergedQuotes(markets[scen.d])

\* C19: after a scenario whose adjusters are all SimpleQuoteAdjuster(ABSOLUTE,
\* 0.0), with any filter, every quote of the scenario market equals the base
\* quote and every pricer values the same on both markets.
C19_ZeroAbsoluteShiftIsNeutral ==
    (scen.op = "impact" /\ scen.adjs # <<>>
        /\ \A k \in 1..Len(scen.adjs) :
               /\ scen.adjs[k].kind = "SIMPLE"
               /\ scen.adjs[k].type = "ABSOLUTE"
               /\ scen.adjs[k].v = 0)
        => /\ scen.d # 0
           /\ \A n \in InstNames : QuoteIn(markets[scen.d], n) = scen.orig[n]
           /\ \A p \in PricerNames :
                  Calculate(H, markets[scen.d], p) = Calculate(H, markets[1], p)

\* The row claimed: base and scenario value of the metric, their difference,
\* and the quotient or, for a zero base value, the sentinel and no division.
RowAsClaimed(row) ==
    /\ row.base_value = Calculate(H, markets[1], scen.p).val
    /\ row.scen_value = Calculate(H, markets[scen.d], scen.p).val
    /\ row.change_abs = row.scen_value - row.base_value
    /\ IF row.base_value # 0
       THEN /\ ~row.change_rel.inf
            /\ row.change_rel.den # 0
            /\ row.change_rel.num * row.base_value
                   = row.change_abs * row.change_rel.den
       ELSE row.change_rel = Inf /\ scen.ndiv = 0

\* C20: unless deriving the scenario market or a pricer fails,
\* calculate_scenario_impact returns exactly one row, with the base value,
\* the scenario value, their difference and the relative change or sentinel.
C20_OneRowWithChanges ==
    (scen.op = "impact" /\ scen.stage \notin {"derive", "pricing"}) =>
        /\ Len(scen.rows) = 1
        /\ RowAsClaimed(scen.rows[1])

\* What holds of the source: the same whenever the function returns.
ReturnedRowAsClaimed ==
    (scen.op = "impact" /\ scen.err = "") =>
        /\ Len(scen.rows) = 1
        /\ RowAsClaimed(scen.rows[1])

\* ------------------------------------------------- curve life cycle
\* The build state of curve object c changes in this step.
BuiltStateChanges(c) == IsBuilt(curves'[c]) # IsBuilt(curves[c])

\* C21: a constructed curve is Unbuilt; a build that succeeds leaves the
\* curve Built and a reset leaves it Unbuilt; a build that raises leaves an
\* Unbuilt curve Unbuilt; a copy starts in the state of its original; and no
\* step changes the build state of a curve other than a successful build or
\* a reset of that curve.
C21_BuiltStateMachine ==
    [][/\ \A c \in 1..Len(curves) :
              BuiltStateChanges(c) =>
                  \/ last'.op = "build" /\ last'.d = c /\ last'.err = ""
                  \/ last'.op = "reset" /\ last'.d = c
       /\ last'.op = "construct" => ~IsBuilt(curves'[last'.d])
       /\ (last'.op = "build" /\ last'.err = "") => IsBuilt(curves'[last'.d])
       /\ (last'.op = "build" /\ last'.err # "" /\ ~IsBuilt(curves[last'.d]))
              => ~IsBuilt(curves'[last'.d])
       /\ last'.op = "reset" => ~IsBuilt(curves'[last'.d])
       /\ last'.op = "copy" =>
              IsBuilt(curves'[Len(curves')]) = IsBuilt(curves[last'.d])]_vars

\* A curve was reset and a build of it then raised.
C21_Witness ==
    /\ last.op = "build"
    /\ last.err # ""
    /\ ~IsBuilt(curves[last.d])
    /\ last.d <= 4

\* ------------------------------------------------ dependency walks
\* C23: on an acyclic prerequisite graph the walk returns, the names it
\* returns are exactly the curves reachable over prerequisite-curve edges,
\* the instrument set is the union of the instrument names of the curve and
\* of those curves, and no curve's declared prerequisite list is changed.
C23_WalkIsReachableSet ==
    [][last'.op = "walk" =>
         /\ last'.err = ""
         /\ Range(last'.log) = ReachableCurves(curves, markets[1], last'.d)
         /\ last'.names = TransitiveInstruments(curves, markets[1], last'.d)
         /\ curves' = curves]_vars

\* The walk from the top of the diamond D -> {B, C} -> A, which reaches A
\* along two paths.
C23_Witness ==
    /\ last.op = "walk"
    /\ curves[last.d].name = "D"
    /\ Range(curves[last.d].prerequisite_curve_ids) = {"B", "C"}
    /\ Range(curves[2].prerequisite_curve_ids) = {"A"}
    /\ Range(curves[3].prerequisite_curve_ids) = {"A"}
    /\ Range(last.log) = {"A", "B", "C"}
    /\ Len(last.log) > 3

\* ---------------------------------------------- cyclic declarations
\* C24: on a market whose prerequisite declarations contain a cycle,
\* new_market_for_instruments does not return a market: the walk recurses
\* until the interpreter ends it, and no consistency error is raised.
C24_CycleNeverReturns ==
    last.op = "derive" =>
        /\ last.err = "RecursionError"
        /\ last.d = 0
        /\ Len(markets) = 1

\* The call on a market in which a curve names itself.
C24_Witness ==
    /\ last.op = "derive"
    /\ last.err # ""
    /\ \E c \in 1..Len(curves) :
           curves[c].name \in Range(curves[c].prerequisite_curve_ids)

\* -------------------------------------------------------- quote database
\* The rows of an instrument dated within the last w days up to date.
InWindow(db, date, id, w) ==
    {k \in 1..Len(db) : /\ db[k].instrument_id = id
                        /\ date - w <= db[k].quote_date
                        /\ db[k].quote_date <= date}

\* C25: with a window w > 0, get_quote returns a quote of the instrument
\* dated within the last w days up to the date and no older than any other
\* such quote, and None when there is none; a negative window raises
\* LookupError.
C25_WindowedLookup ==
    dblast.op = "get" =>
        LET ks == InWindow(quote_db, dblast.date, dblast.instrument_id,
                           dblast.window)
        IN /\ dblast.window < 0 => dblast.err = "LookupError"
           /\ dblast.window > 0 =>
                 /\ dblast.err = ""
                 /\ ks = {} => dblast.row = NoRow
                 /\ ks # {} =>
                       /\ \E k \in ks : quote_db[k] = dblast.row
                       /\ \A j \in ks :
                             quote_db[j].quote_date <= dblast.row.quote_date

\* ------------------------------------------ lookups after an overwrite
\* The currencies whose recorded rates imply a rate for (c1, c2).
Pivots(c1, c2) ==
    {t \in Ccys : fx_recorded[t][c1] # NoRate /\ fx_recorded[t][c2] # NoRate}

\* C26: get_spot_FX(c1, c2) for a pair never recorded through add_spot_FX
\* returns the rate implied by the currently recorded legs,
\* rate(t,c2) / rate(t,c1), or the reciprocal of the opposite quotient when
\* that direction was looked up first; never a quotient of overwritten legs.
C26_NoStaleTriangulation ==
    (/\ fxlast.op = "get_spot_FX"
     /\ fxlast.c1 # fxlast.c2
     /\ fx_recorded[fxlast.c1][fxlast.c2] = NoRate
     /\ fx_recorded[fxlast.c2][fxlast.c1] = NoRate
     /\ Pivots(fxlast.c1, fxlast.c2) # {})
    => /\ fxlast.err = ""
       /\ \E t \in Pivots(fxlast.c1, fxlast.c2) :
             fxlast.val \in
                {Triangulate(fx_recorded[t][fxlast.c1], fx_recorded[t][fxlast.c2]),
                 FDiv(One, Triangulate(fx_recorded[t][fxlast.c2],
                                       fx_recorded[t][fxlast.c1]))}

\* ------------------------------------------- in-place risk, failed call
\* C27: when an error leaves calculate_market_risk_in_place, every quote of
\* the live market has its value from before the call.
C27_FailedCallRestoresQuotes ==
    (risk.in_place /\ risk.pc = "raised") => Differing = {}

\* ------------------------------------------- direct role registrations
\* Every curve a role map refers to is the one registered under its name.
RoleMapsRegistered(C, mk) ==
    /\ \A key \in DiscKeys :
          mk.discount_curves[key] # NoObj =>
             GetCurveByName(mk, C[mk.discount_curves[key]].name)
                = mk.discount_curves[key]
    /\ \A key \in IndexKeys :
          mk.index_curves[key] # NoObj =>
             GetCurveByName(mk, C[mk.index_curves[key]].name)
                = mk.index_curves[key]

\* C28: a failing add_discount_curve or add_index_curve leaves the role maps
\* and all_curves of the market as they were, and after the call every
\* role map entry of the market is the curve registered under its name.
C28_FailedRegistrationChangesNothing ==
    [][(/\ last'.op \in {"add_discount_curve", "add_index_curve"}
        /\ last'.err # ""
        /\ RoleMapsRegistered(curves, markets[last'.m]))
       => /\ markets'[last'.m] = markets[last'.m]
          /\ RoleMapsRegistered(curves', markets'[last'.m])]_vars

\* ------------------------------------------------ one quote adjustment
\* C30: an adjuster with adjustment value v returns a new instrument whose
\* quote is q * (1 + v) for RELATIVE, q + v for ABSOLUTE and v for FIXED,
\* where q is the quote of the input instrument, and the input instrument
\* keeps its quote.
C30_AdjusterArithmetic ==
    (last.op = "apply_adjustment" /\ last.log[1].kind = "SIMPLE") =>
        LET adj == last.log[1]
            q == last.quote
            input == markets[1].instruments[CHOOSE n \in last.names : TRUE]
        IN /\ last.err = ""
           /\ last.d # input
           /\ insts[input].quote = q
           /\ insts[last.d].quote =
                 CASE adj.type = "RELATIVE" -> q * (1 + adj.v)
                   [] adj.type = "ABSOLUTE" -> q + adj.v
                   [] OTHER -> adj.v

\* ======================================= dictionaries held by markets
\* What market m returns: get_spot_FX for every pair (error or value),
\* get_index_fixings for every index, and the quote of every instrument.
SpotFXResults(D, mks, m) ==
    [c1 \in Ccys |-> [c2 \in Ccys |->
        [err |-> GetSpotFXIn(Held(D, mks, m).fx, c1, c2).err,
         val |-> GetSpotFXIn(Held(D, mks, m).fx, c1, c2).val]]]

FixingsResults(D, mks, m) ==
    [k \in IndexKeys |-> GetIndexFixings(Held(D, mks, m).fixings, k)]

QuoteResults(I, mks, m) ==
    [n \in InstNames |->
        IF mks[m].instruments[n] = NoObj THEN 0
        ELSE I[mks[m].instruments[n]].quote]

Returns(D, I, mks, m) ==
    <<SpotFXResults(D, mks, m), FixingsResults(D, mks, m), QuoteResults(I, mks, m)>>

\* o was derived from t by new_market_for_instruments, or t from o
DerivedPair(mks, o, t) ==
    \/ mks[o].origin = "derive" /\ mks[o].parent = t
    \/ mks[t].origin = "derive" /\ mks[t].parent = o

\* C29: an add_spot_FX, get_spot_FX, add_index_fixings or set_quote applied
\* to a derived market changes nothing of what the market it was derived
\* from returns, and the same call applied to the base market changes
\* nothing of what the derived market returns.
C29_DerivedMarketIsolated ==
    [][last'.op \in {"add_spot_FX", "get_spot_FX", "add_index_fixings", "set_quote"}
       => \A o \in 1..Len(markets) :
             (o # last'.m /\ DerivedPair(markets, o, last'.m)) =>
                Returns(dicts', insts', markets', o)
                   = Returns(dicts, insts, markets, o)]_vars

\* The curve name a role map entry refers to.
RoleName(C, cid) == IF cid = NoObj THEN NoKey ELSE C[cid].name

\* C22: the market validated from the serialised form of a market has the
\* same instrument names and quotes, the same curve names, role maps that
\* send every key to its own curve of the same name as before, the same FX
\* entries and the same get_spot_FX results as the original.
C22_RoundTripPreservesMarket ==
    [][last'.op = "validate" =>
         /\ last'.err = ""
         /\ LET M == markets'[last'.m]
                R == markets'[last'.d]
            IN /\ QuoteResults(insts', markets', last'.d)
                     = QuoteResults(insts', markets', last'.m)
               /\ CurveNamesOf(R) = CurveNamesOf(M)
               /\ \A k \in DiscKeys :
                     /\ RoleName(curves', R.discount_curves[k])
                           = RoleName(curves', M.discount_curves[k])
                     /\ R.discount_curves[k] # NoObj =>
                           R.discount_curves[k] \in CurveObjs(R)
               /\ \A k \in IndexKeys :
                     /\ RoleName(curves', R.index_curves[k])
                           = RoleName(curves', M.index_curves[k])
                     /\ R.index_curves[k] # NoObj =>
                           R.index_curves[k] \in CurveObjs(R)
               /\ Held(dicts', markets', last'.d).fx.T
                     = Held(dicts', markets', last'.m).fx.T
               /\ SpotFXResults(dicts', markets', last'.d)
                     = SpotFXResults(dicts', markets', last'.m)]_vars

====
